---- MODULE Spec2Model ----
(***************************************************************************)
(* A model of github.com/vrischmann/hutil: the Router handler stack, the   *)
(* Chain / MiddlewareStack middleware composition, the logging middlewares *)
(* and their LoggingWriter, ShiftPath, the session middleware and the      *)
(* response helpers.                                                       *)
(*                                                                         *)
(* Go slices are modelled as they are in Go: a slice header (array, len,   *)
(* cap) over a backing array that lives on a heap, so that two slices can  *)
(* share storage.                                                          *)
(***************************************************************************)
EXTENDS Integers, Sequences, FiniteSets, TLC

\* ------------------------------------------------------------------ bounds
\* registered stack handlers over the whole run (each Add registers a new one)
MaxHandlers == 5
\* handlers given to NewRouter
MaxInitial == 2
\* Router objects alive at once
MaxRouters == 2
\* invocations of composed handlers in flight at once, while the router is
\* still being added to
MaxInv == 1
\* concurrent invocations of composed handlers once the router is complete
MaxConc == 2
\* middlewares stacked on a Chain / MiddlewareStack
MaxStack == 3
\* bytes of response body one request writes
MaxBody == 2
\* Write calls on one LoggingWriter
MaxWrites == 3
\* len(b) of the buffer given to one Write call
MaxChunk == 2
\* WriteHeader calls on one LoggingWriter
MaxHeaderCalls == 2
\* calls on one LoggingWriter whose forwarding is followed
MaxForwards == 3
\* length of the path strings given to ShiftPath
MaxPathLen == 4
\* ShiftPath calls made while routing one request
MaxShifts == 3
\* readings of the monotonic clock, in ticks
MaxClock == 3
\* FromContext calls the downstream handler makes for one request
MaxReads == 2
\* elements (characters and verbs) of the text given to a response helper
MaxTextLen == 2
\* arguments given to a response helper after the text
MaxArgs == 1
\* ticks of the clock in one time.Millisecond
TicksPerMs == 2

VARIABLES
    \* ---- Router (src/router.go)
    routers,    \* router id -> slice header of its `handlers` field, or NoRouter
    heap,       \* backing array id -> contents (<<>> when not allocated)
    nextH,      \* number of stack handlers registered so far
    built,      \* the closure last returned by Router.Handler or Router.HandlerFunc
    inv,        \* invocation slot -> state of one call of a composed handler
    hstore,     \* handler-context value -> what the handlers stored through it
    \* ---- Chain and MiddlewareStack (src/chain.go, src/middleware.go)
    kind,       \* the type the program stacks its middlewares on
    stack,      \* the Chain / MiddlewareStack value: the middlewares, in Use order
    wrapped,    \* the handler last returned by Handler, or NotWrapped
    req,        \* the request being served by a wrapped handler
    \* ---- logging middlewares (src/adhoc/logger.go, src/bun/logger.go, ...)
    logCfg,     \* which NewLoggingMiddleware was called, and with which options
    lreq,       \* the request inside the logging middleware
    \* ---- LoggingWriter (src/internal/logging_writer.go)
    wr,         \* one LoggingWriter, its underlying writer and the calls made on it
    \* ---- ShiftPath (src/unnamed/part_002)
    sp,         \* the path being routed and the ShiftPath calls made on it
    \* ---- timed logging middlewares (src/unnamed/part_009, src/router.go)
    tcfg,       \* which NewLoggingMiddleware was called, and with which argument
    tm,         \* the clock and the request inside that middleware
    \* ---- session middleware (src/unnamed/part_009, package husession)
    ss,         \* one request inside the session middleware
    \* ---- response helpers (src/helpers.go)
    hw,         \* one helper call and the response writer it writes to
    \* ---- LoggingWriter as the underlying writer sees it
    pt,         \* the calls made on a LoggingWriter and those its underlying writer got
    \* ---- a logging middleware behind another middleware (src/adhoc/logger.go)
    pl          \* the clock and one request going through Middleware1 and the logger

routerVars == <<routers, heap, nextH, built, inv, hstore>>

mwVars == <<kind, stack, wrapped, req>>

logVars == <<logCfg, lreq>>

writerVars == <<wr>>

shiftVars == <<sp>>

timedVars == <<tcfg, tm>>

sessionVars == <<ss>>

helperVars == <<hw>>

passVars == <<pt>>

placeVars == <<pl>>

\* what the actions of one part leave alone
notRouter ==
    <<mwVars, logVars, writerVars, shiftVars, timedVars, sessionVars, helperVars,
      passVars, placeVars>>
notMW ==
    <<routerVars, logVars, writerVars, shiftVars, timedVars, sessionVars, helperVars,
      passVars, placeVars>>
notLog ==
    <<routerVars, mwVars, writerVars, shiftVars, timedVars, sessionVars, helperVars,
      passVars, placeVars>>
notWriter ==
    <<routerVars, mwVars, logVars, shiftVars, timedVars, sessionVars, helperVars,
      passVars, placeVars>>
notShift ==
    <<routerVars, mwVars, logVars, writerVars, timedVars, sessionVars, helperVars,
      passVars, placeVars>>
notTimed ==
    <<routerVars, mwVars, logVars, writerVars, shiftVars, sessionVars, helperVars,
      passVars, placeVars>>
notSession ==
    <<routerVars, mwVars, logVars, writerVars, shiftVars, timedVars, helperVars,
      passVars, placeVars>>
notHelper ==
    <<routerVars, mwVars, logVars, writerVars, shiftVars, timedVars, sessionVars,
      passVars, placeVars>>
notPass ==
    <<routerVars, mwVars, logVars, writerVars, shiftVars, timedVars, sessionVars, helperVars,
      placeVars>>
notPlace ==
    <<routerVars, mwVars, logVars, writerVars, shiftVars, timedVars, sessionVars, helperVars,
      passVars>>

vars ==
    <<routers, heap, nextH, built, inv, hstore, kind, stack, wrapped, req, logCfg, lreq, wr, sp,
      tcfg, tm, ss, hw, pt, pl>>

\* ================================================================== Router
RouterIds == 1..MaxRouters
ArrIds == 1..(MaxRouters + 1)
\* the invocation slots, and those used while the router is still added to
InvIds == 1..MaxConc
SerialIds == 1..MaxInv
\* the handler-context values (pointers) the callers pass to composed handlers
HCtxs == {1, 2}
\* final handlers handed to Router.Handler; stack handlers are 1..MaxHandlers
FinalHandlers == {-1, -2}
\* the zero value of a slot of a backing array (a nil Handler)
None == 0

NilSlice == [arr |-> 0, len |-> 0, cap |-> 0]
NoRouter == [arr |-> 0, len |-> -1, cap |-> -1]
NotBuilt == [r |-> 0, f |-> 0, via |-> "", n |-> 0]

Exists(r) == routers[r] # NoRouter

\* s.handlers[0:len] read through the slice header `s` over heap `hp`
Elems(hp, s) == [i \in 1..s.len |-> hp[s.arr][i]]

\* the handler sequence of router r
Handlers(r) == Elems(heap, routers[r])

\* the lowest free backing array
Alloc(hp) == CHOOSE a \in ArrIds : hp[a] = <<>> /\ \A b \in ArrIds : hp[b] = <<>> => a <= b

\* Go's append(s, h): in place when the capacity allows, otherwise into a new
\* array of twice the capacity
AppendSlice(hp, s, h) ==
    IF s.len < s.cap
    THEN [s  |-> [s EXCEPT !.len = s.len + 1],
          hp |-> [hp EXCEPT ![s.arr][s.len + 1] = h]]
    ELSE LET a == Alloc(hp)
             newcap == IF s.cap = 0 THEN 1 ELSE 2 * s.cap
             new == [i \in 1..newcap |->
                        IF i <= s.len THEN hp[s.arr][i]
                        ELSE IF i = s.len + 1 THEN h ELSE None]
         IN [s  |-> [arr |-> a, len |-> s.len + 1, cap |-> newcap],
             hp |-> [hp EXCEPT ![a] = new]]

\* arrays that no router and no running loop refers to are collected
Collect(hp, rs, iv) ==
    LET live == {rs[r].arr : r \in RouterIds}
                \cup {iv[k].arr : k \in {j \in InvIds : iv[j].st = "loop"}}
    IN [a \in ArrIds |-> IF a \in live THEN hp[a] ELSE <<>>]

Idle == [st |-> "idle", r |-> 0, f |-> 0, via |-> "", n |-> 0, ctx |-> 0, hctx |-> 0,
         arr |-> 0, len |-> 0, i |-> 0,
         seen |-> <<>>, calls |-> <<>>, ret |-> <<>>]

\* no invocation is ranging over r's handlers (Add during a request is a data
\* race the callers must exclude)
Quiet(r) == \A k \in InvIds : inv[k].st = "loop" => inv[k].r # r

FreeRouter == CHOOSE c \in RouterIds : ~Exists(c) /\ \A d \in RouterIds : ~Exists(d) => c <= d

\* NewRouter(handler...): the variadic slice (nil when no handler is given)
\* becomes the handlers field
NewRouter(n) ==
    IF n = 0 THEN NilSlice ELSE [arr |-> 1, len |-> n, cap |-> n]

\* s.handlers = append(s.handlers, handler)
AddHandler(r, h) ==
    LET res == AppendSlice(heap, routers[r], h)
        rs == [routers EXCEPT ![r] = res.s]
    IN /\ routers' = rs
       /\ heap' = Collect(res.hp, rs, inv)

Add(r) ==
    /\ Exists(r)
    /\ Quiet(r)
    /\ nextH < MaxHandlers
    /\ AddHandler(r, nextH + 1)
    /\ nextH' = nextH + 1
    /\ UNCHANGED <<built, inv, hstore, notRouter>>

\* AddFunc wraps the function into a HandlerFunc and appends it
AddFunc(r) ==
    /\ Exists(r)
    /\ Quiet(r)
    /\ nextH < MaxHandlers
    /\ AddHandler(r, nextH + 1)
    /\ nextH' = nextH + 1
    /\ UNCHANGED <<built, inv, hstore, notRouter>>

\* a mutant of DivergeSlice: the clone shares the slice of the original
DivergeSliceShared(hp, s) == [s |-> s, hp |-> hp]

\* tmp := make([]Handler[C], len(s.handlers)); copy(tmp, s.handlers)
DivergeSlice(hp, s) ==
    IF s.len = 0
    THEN [s |-> NilSlice, hp |-> hp]
    ELSE LET a == Alloc(hp)
         IN [s  |-> [arr |-> a, len |-> s.len, cap |-> s.len],
             hp |-> [hp EXCEPT ![a] = [i \in 1..s.len |-> hp[s.arr][i]]]]

Diverge(r) ==
    /\ Exists(r)
    /\ \E c \in RouterIds : ~Exists(c)
    /\ LET res == DivergeSlice(heap, routers[r])
       IN /\ routers' = [routers EXCEPT ![FreeRouter] = res.s]
          /\ heap' = res.hp
    /\ UNCHANGED <<nextH, built, inv, hstore, notRouter>>

\* Router.Handler(finalHandler): a closure over the router and the final
\* handler (n remembers how many handlers the router had at that moment; the
\* closure itself captures only the router)
Handler(r, f) ==
    /\ Exists(r)
    /\ built' = [r |-> r, f |-> f, via |-> "Handler", n |-> routers[r].len]
    /\ UNCHANGED <<routers, heap, nextH, inv, hstore, notRouter>>

\* Router.HandlerFunc(fn): finalHandler := HandlerFunc[C](fn), then a closure
\* over the router and that final handler
HandlerFunc(r, fn) ==
    /\ Exists(r)
    /\ built' = [r |-> r, f |-> fn, via |-> "HandlerFunc", n |-> routers[r].len]
    /\ UNCHANGED <<routers, heap, nextH, inv, hstore, notRouter>>

\* a mutant of Range: the closure ranges over the handlers the router had when
\* the closure was made
RangeAtBuild(c, rs) == [rs[c.r] EXCEPT !.len = c.n]

\* `range s.handlers` inside the closure: the handlers field of the router is
\* read when the closure runs
Range(c, rs) == rs[c.r]

\* the composed handler is called with (ctx, handlerContext, w, req): `range
\* s.handlers` reads the slice header once; every request has its own context
Invoke(k, c, x) ==
    /\ c # NotBuilt
    /\ inv[k].st = "idle"
    /\ inv' = [inv EXCEPT ![k] =
                 [st |-> "loop", r |-> c.r, f |-> c.f, via |-> c.via, n |-> c.n,
                  ctx |-> k, hctx |-> x,
                  arr |-> Range(c, routers).arr, len |-> Range(c, routers).len, i |-> 0,
                  seen |-> Handlers(c.r), calls |-> <<>>, ret |-> <<>>]]
    /\ UNCHANGED <<routers, heap, nextH, built, hstore, notRouter>>

\* a mutant of Call: every handler is handed the first handler-context value
CallSharedContext(v, h, ok) == [h |-> h, ok |-> ok, ctx |-> v.ctx, hctx |-> 1]

\* handler.Handle(ctx, handlerContext, w, req): the arguments of the closure are
\* handed on as they are
Call(v, h, ok) == [h |-> h, ok |-> ok, ctx |-> v.ctx, hctx |-> v.hctx]

\* a mutant of LoopStep: an error of a stacked handler is dropped
LoopStepIgnoreError(v, h, ok) ==
    [v EXCEPT !.calls = Append(@, Call(v, h, ok)), !.i = @ + 1]

\* one iteration: err := handler.Handle(...); if err != nil { return err }
LoopStep(v, h, ok) ==
    IF ok
    THEN [v EXCEPT !.calls = Append(@, Call(v, h, ok)), !.i = @ + 1]
    ELSE [v EXCEPT !.calls = Append(@, Call(v, h, ok)),
                   !.ret = <<h>>, !.st = "done"]

\* the same iteration in the closure made by Router.HandlerFunc
FuncLoopStep(v, h, ok) ==
    IF ok
    THEN [v EXCEPT !.calls = Append(@, Call(v, h, ok)), !.i = @ + 1]
    ELSE [v EXCEPT !.calls = Append(@, Call(v, h, ok)),
                   !.ret = <<h>>, !.st = "done"]

\* the handler that was called stores something through the handler context it
\* was handed (as the handlers of the Router documentation do)
StoreThrough(v, k) ==
    LET c == v.calls[Len(v.calls)]
    IN /\ inv' = [inv EXCEPT ![k] = v]
       /\ hstore' = [hstore EXCEPT ![c.hctx] =
                        @ \cup {[h |-> c.h, ctx |-> inv[k].ctx, own |-> inv[k].hctx]}]

CallStacked(k) ==
    /\ inv[k].st = "loop"
    /\ inv[k].i < inv[k].len
    /\ \E ok \in BOOLEAN :
          LET h == heap[inv[k].arr][inv[k].i + 1]
          IN IF inv[k].via = "Handler"
             THEN StoreThrough(LoopStep(inv[k], h, ok), k)
             ELSE StoreThrough(FuncLoopStep(inv[k], h, ok), k)
    /\ heap' = Collect(heap, routers, inv')
    /\ UNCHANGED <<routers, nextH, built, notRouter>>

\* a mutant of FinalStep: the composed handler returns nil whatever the final
\* handler returned
FinalStepDropResult(v, ok) ==
    [v EXCEPT !.calls = Append(@, Call(v, v.f, ok)), !.ret = <<>>, !.st = "done"]

\* return finalHandler.Handle(ctx, handlerContext, w, req)
FinalStep(v, ok) ==
    [v EXCEPT !.calls = Append(@, Call(v, v.f, ok)),
              !.ret = IF ok THEN <<>> ELSE <<v.f>>, !.st = "done"]

\* the same return in the closure made by Router.HandlerFunc; the final handler
\* is HandlerFunc[C](fn), whose Handle is f(ctx, handlerCtx, w, req)
FuncFinalStep(v, ok) ==
    [v EXCEPT !.calls = Append(@, Call(v, v.f, ok)),
              !.ret = IF ok THEN <<>> ELSE <<v.f>>, !.st = "done"]

CallFinal(k) ==
    /\ inv[k].st = "loop"
    /\ inv[k].i = inv[k].len
    /\ \E ok \in BOOLEAN :
          IF inv[k].via = "Handler"
          THEN StoreThrough(FinalStep(inv[k], ok), k)
          ELSE StoreThrough(FuncFinalStep(inv[k], ok), k)
    /\ heap' = Collect(heap, routers, inv')
    /\ UNCHANGED <<routers, nextH, built, notRouter>>

\* the caller takes the result; the invocation is over, and what the request
\* stored goes with it (its context is never used again)
Return(k) ==
    /\ inv[k].st = "done"
    /\ inv' = [inv EXCEPT ![k] = Idle]
    /\ hstore' = [x \in HCtxs |-> {e \in hstore[x] : e.ctx # inv[k].ctx}]
    /\ UNCHANGED <<routers, heap, nextH, built, notRouter>>

\* the program has built its first router with NewRouter; the other routers
\* come from Diverge
RouterInit ==
    /\ \E n \in 0..MaxInitial :
          /\ routers = [r \in RouterIds |-> IF r = 1 THEN NewRouter(n) ELSE NoRouter]
          /\ heap = [a \in ArrIds |-> IF a = 1 THEN [i \in 1..n |-> i] ELSE <<>>]
          /\ nextH = n
    /\ built = NotBuilt
    /\ inv = [k \in InvIds |-> Idle]
    /\ hstore = [x \in HCtxs |-> {}]

\* one router serving requests
NextRouter ==
    \/ \E r \in RouterIds : Add(r)
    \/ \E r \in RouterIds : AddFunc(r)
    \/ \E r \in RouterIds : Handler(r, -1)
    \/ \E r \in RouterIds : HandlerFunc(r, -1)
    \/ \E k \in SerialIds : Invoke(k, built, 1)
    \/ \E k \in InvIds : CallStacked(k)
    \/ \E k \in InvIds : CallFinal(k)
    \/ \E k \in InvIds : Return(k)

\* ============================================================ Router claims
\* the handlers an invocation has called, in call order
Called(v) == [j \in 1..Len(v.calls) |-> v.calls[j].h]

\* the calls of stacked handlers (not the final one) all returned nil
StackedAllNil(v) == \A j \in 1..Len(v.calls) : v.calls[j].h \notin FinalHandlers => v.calls[j].ok

\* C1: when every stacked handler returns nil, one invocation of the handler
\* composed by Router.Handler(f) calls h1, ..., hn and then f, in that order and
\* each once, and returns what f returned.
C1_AllNilRunsAllThenFinal ==
    \A k \in InvIds :
        (inv[k].st = "done" /\ StackedAllNil(inv[k])) =>
            /\ Called(inv[k]) = Append(inv[k].seen, inv[k].f)
            /\ inv[k].ret = IF inv[k].calls[Len(inv[k].calls)].ok THEN <<>> ELSE <<inv[k].f>>

C1_Witness ==
    \E k \in InvIds :
        /\ inv[k].st = "done"
        /\ Len(inv[k].seen) = 3
        /\ \A j \in 1..Len(inv[k].calls) : inv[k].calls[j].ok
        /\ Len(inv[k].calls) = 4

\* C2: when hk is the first stacked handler that returns an error, one
\* invocation calls exactly h1..hk in order, calls none of the later handlers
\* and not the final handler, and returns hk's error.
C2_FirstErrorShortCircuits ==
    \A k \in InvIds :
        (inv[k].st = "done" /\ ~StackedAllNil(inv[k])) =>
            LET first == CHOOSE j \in 1..Len(inv[k].calls) :
                            /\ ~inv[k].calls[j].ok
                            /\ \A i \in 1..(j - 1) : inv[k].calls[i].ok
            IN /\ first <= Len(inv[k].seen)
               /\ Called(inv[k]) = SubSeq(inv[k].seen, 1, first)
               /\ inv[k].ret = <<inv[k].seen[first]>>

C2_Witness ==
    \E k \in InvIds :
        /\ inv[k].st = "done"
        /\ Len(inv[k].seen) = 3
        /\ Len(inv[k].calls) = 2
        /\ ~inv[k].calls[2].ok
        /\ inv[k].ret = <<inv[k].seen[2]>>

\* the handler sequence of router x after the step
HandlersAfter(x) == Elems(heap', routers'[x])

\* C3: the router returned by Diverge holds the handlers of the original, in
\* order, and from then on an Add/AddFunc on one router changes the handler
\* sequence of that router alone (the original and the clone included, in both
\* directions).
C3_DivergeIndependent ==
    [][ /\ \A r \in RouterIds :
              Diverge(r) =>
                  /\ HandlersAfter(FreeRouter) = Handlers(r)
                  /\ \A y \in RouterIds : Exists(y) => HandlersAfter(y) = Handlers(y)
        /\ \A x \in RouterIds :
              (Add(x) \/ AddFunc(x)) =>
                  /\ HandlersAfter(x) = Append(Handlers(x), nextH + 1)
                  /\ \A y \in RouterIds \ {x} : Exists(y) => HandlersAfter(y) = Handlers(y)
      ]_vars

\* a clone and its original (they share a first handler) have both been added to
\* since the Diverge
C3_Witness ==
    \E r, c \in RouterIds :
        /\ r # c /\ Exists(r) /\ Exists(c)
        /\ Len(Handlers(r)) >= 2 /\ Len(Handlers(c)) >= 2
        /\ Handlers(r)[1] = Handlers(c)[1]
        /\ \A j \in 1..Len(Handlers(c)) : Handlers(c)[j] # Handlers(r)[Len(Handlers(r))]
        /\ \A j \in 1..Len(Handlers(r)) : Handlers(r)[j] # Handlers(c)[Len(Handlers(c))]


\* a tree of routers being built
NextDiverge ==
    \/ \E r \in RouterIds : Add(r)
    \/ \E r \in RouterIds : AddFunc(r)
    \/ \E r \in RouterIds : Diverge(r)

\* a complete router serving concurrent requests: no Add, no Diverge any more
NextConc ==
    \/ \E r \in RouterIds : Handler(r, -1)
    \/ \E r \in RouterIds : HandlerFunc(r, -1)
    \/ \E k \in InvIds : Invoke(k, built, 1)
    \/ \E k \in InvIds : CallStacked(k)
    \/ \E k \in InvIds : CallFinal(k)
    \/ \E k \in InvIds : Return(k)

\* a complete router serving concurrent requests that come with either
\* handler-context value
NextCtx ==
    \/ \E r \in RouterIds : Handler(r, -1)
    \/ \E k \in InvIds, x \in HCtxs : Invoke(k, built, x)
    \/ \E k \in InvIds : CallStacked(k)
    \/ \E k \in InvIds : CallFinal(k)
    \/ \E k \in InvIds : Return(k)

\* the handlers called so far by v and w returned the same, call by call
SameOutcomes(v, w) ==
    \A j \in 1..Len(v.calls) : j <= Len(w.calls) => v.calls[j].ok = w.calls[j].ok

\* C21: Router.HandlerFunc(fn) behaves as Router.Handler(HandlerFunc(fn)): on
\* the same router and the same final function, when the handlers return the
\* same, the two composed handlers call the same handlers in the same order and
\* return the same result.
C21_HandlerFuncLikeHandler ==
    \A k \in InvIds, l \in InvIds :
        ( /\ inv[k].st = "done" /\ inv[l].st = "done"
          /\ inv[k].via = "Handler" /\ inv[l].via = "HandlerFunc"
          /\ inv[k].r = inv[l].r /\ inv[k].f = inv[l].f
          /\ inv[k].seen = inv[l].seen
          /\ SameOutcomes(inv[k], inv[l]) ) =>
            /\ Called(inv[k]) = Called(inv[l])
            /\ inv[k].ret = inv[l].ret

C21_Witness ==
    \E k \in InvIds, l \in InvIds :
        /\ inv[k].st = "done" /\ inv[l].st = "done"
        /\ inv[k].via = "Handler" /\ inv[l].via = "HandlerFunc"
        /\ inv[k].r = inv[l].r /\ inv[k].f = inv[l].f
        /\ SameOutcomes(inv[k], inv[l])
        /\ Len(inv[k].calls) = 3 /\ Len(inv[l].calls) = 3
        /\ inv[l].ret = <<inv[l].f>>

\* C25: within one invocation the composed handler hands the context and the
\* handler-context value it received to every stacked handler and to the final
\* handler, so what the handlers of a request stored is behind the handler
\* context of that request, where the later handlers and the final handler of
\* the request find it, and behind no other handler-context value.
C25_SameContextForAll ==
    /\ \A k \in InvIds :
          \A j \in 1..Len(inv[k].calls) :
              /\ inv[k].calls[j].ctx = inv[k].ctx
              /\ inv[k].calls[j].hctx = inv[k].hctx
              /\ [h |-> inv[k].calls[j].h, ctx |-> inv[k].ctx, own |-> inv[k].hctx]
                     \in hstore[inv[k].hctx]
    /\ \A x \in HCtxs : \A e \in hstore[x] : e.own = x

C25_Witness ==
    \E k \in InvIds, l \in InvIds :
        /\ inv[k].st = "done" /\ inv[l].st = "done"
        /\ inv[k].hctx # inv[l].hctx
        /\ Len(inv[k].calls) = 3 /\ Len(inv[l].calls) = 3
        /\ inv[k].calls[3].h \in FinalHandlers
        /\ Cardinality(hstore[inv[k].hctx]) = 3
        /\ Cardinality(hstore[inv[l].hctx]) = 3

\* what one finished invocation must have done on the handlers hs, given what
\* the handlers it called returned
OwnOutcome(v, hs) ==
    LET all == Append(hs, v.f)
        m == Len(v.calls)
    IN /\ m >= 1 /\ m <= Len(all)
       /\ Called(v) = SubSeq(all, 1, m)
       /\ \A j \in 1..(m - 1) : v.calls[j].ok
       /\ m < Len(all) => ~v.calls[m].ok /\ v.ret = <<all[m]>>
       /\ m = Len(all) => v.ret = IF v.calls[m].ok THEN <<>> ELSE <<v.f>>

\* C26: Handler, HandlerFunc and the invocations of composed handlers leave the
\* handler sequence of every router as it is, and on a complete router each of
\* the concurrent requests, under every interleaving, runs the whole sequence in
\* registration order up to its own first error, whatever the others do.
C26_ConcurrentRequestsIndependent ==
    [][ /\ \A r \in RouterIds : HandlersAfter(r) = Handlers(r)
        /\ \A k \in InvIds :
              inv'[k].st = "done" => OwnOutcome(inv'[k], HandlersAfter(inv'[k].r)) ]_vars

C26_Witness ==
    \E k \in InvIds, l \in InvIds :
        /\ inv[k].st = "done" /\ inv[l].st = "done"
        /\ inv[k].r = inv[l].r
        /\ Len(inv[k].seen) = 2
        /\ Len(inv[k].calls) = 1 /\ inv[k].ret = <<inv[k].seen[1]>>
        /\ Len(inv[l].calls) = 3 /\ inv[l].ret = <<>>

Middlewares == {1, 2}
\* the final http.Handler values handed to Handler
FinalHttpHandlers == {-1, -2}

\* an http.Handler built here is a final handler under a nest of middlewares:
\* mws lists the wrapping middlewares, outermost first
Bare(f) == [mws |-> <<>>, final |-> f]

\* m(next): the handler that runs m's code, which may call next
Wrap(m, next) == [mws |-> <<m>> \o next.mws, final |-> next.final]

NotWrapped == [h |-> Bare(0), from |-> <<>>]
NoReq == [st |-> "idle", h |-> Bare(0), from |-> <<>>, trace |-> <<>>]

RECURSIVE ChainLoopForward(_, _, _)
\* a mutant of ChainLoop: the chain is walked from its first middleware to its
\* last, each wrapping what the earlier ones built
ChainLoopForward(c, i, h) ==
    IF i < 1 THEN h ELSE Wrap(c[i], ChainLoopForward(c, i - 1, h))

RECURSIVE ChainLoop(_, _, _)
\* for i := len(c) - 1; i >= 0; i-- { h = c[i](h) }
ChainLoop(c, i, h) == IF i < 1 THEN h ELSE ChainLoop(c, i - 1, Wrap(c[i], h))

RECURSIVE StackLoopForward(_, _, _)
\* a mutant of StackLoop: the loop wraps the finished handler with s[i] walking
\* the stack from the first middleware to the last
StackLoopForward(s, i, h) ==
    IF i < 1 THEN h ELSE Wrap(s[i], StackLoopForward(s, i - 1, h))

RECURSIVE StackLoop(_, _, _)
\* for i := len(s) - 1; i >= 0; i-- { h = s[i](h) }
StackLoop(s, i, h) == IF i < 1 THEN h ELSE StackLoop(s, i - 1, Wrap(s[i], h))

\* func (c *Chain) Use(h): *c = append(*c, h)
ChainUse(m) ==
    /\ kind = "Chain"
    /\ Len(stack) < MaxStack
    /\ stack' = Append(stack, m)
    /\ UNCHANGED <<kind, wrapped, req, notMW>>

\* func (s *MiddlewareStack) Use(h): *s = append(*s, h)
MiddlewareStackUse(m) ==
    /\ kind = "MiddlewareStack"
    /\ Len(stack) < MaxStack
    /\ stack' = Append(stack, m)
    /\ UNCHANGED <<kind, wrapped, req, notMW>>

\* func (c Chain) Handler(h http.Handler) http.Handler
ChainHandler(f) ==
    /\ kind = "Chain"
    /\ wrapped' = [h |-> ChainLoop(stack, Len(stack), Bare(f)), from |-> stack]
    /\ UNCHANGED <<kind, stack, req, notMW>>

\* func (s MiddlewareStack) Handler(h http.Handler) http.Handler
MiddlewareStackHandler(f) ==
    /\ kind = "MiddlewareStack"
    /\ wrapped' = [h |-> StackLoop(stack, Len(stack), Bare(f)), from |-> stack]
    /\ UNCHANGED <<kind, stack, req, notMW>>

\* a mutant of Composed: the returned handler wraps the final handler when a
\* request comes, with the middlewares stacked by then
ComposedLazily(w, st) == ChainLoop(st, Len(st), Bare(w.h.final))

\* `return h`: the handler Handler returned is the value its loop built; it
\* holds no reference to the stack st
Composed(w, st) == w.h

\* the server hands a request to the wrapped handler
Serve ==
    /\ wrapped # NotWrapped
    /\ req.st = "idle"
    /\ req' = [st |-> "run", h |-> Composed(wrapped, stack), from |-> wrapped.from,
               trace |-> <<>>]
    /\ UNCHANGED <<kind, stack, wrapped, notMW>>

\* the outermost remaining middleware runs: its own code first, then
\* next.ServeHTTP(w, req) if it chooses to call it
RunMiddleware ==
    /\ req.st = "run"
    /\ req.h.mws # <<>>
    /\ \E callsNext \in BOOLEAN :
          req' = [req EXCEPT
                    !.trace = Append(@, [m |-> Head(req.h.mws), next |-> callsNext]),
                    !.h = [@ EXCEPT !.mws = Tail(@)],
                    !.st = IF callsNext THEN "run" ELSE "done"]
    /\ UNCHANGED <<kind, stack, wrapped, notMW>>

\* no middleware is left around the final handler: it runs
RunFinal ==
    /\ req.st = "run"
    /\ req.h.mws = <<>>
    /\ req' = [req EXCEPT !.trace = Append(@, [m |-> req.h.final, next |-> FALSE]),
                          !.st = "done"]
    /\ UNCHANGED <<kind, stack, wrapped, notMW>>

\* ServeHTTP has returned to the server
Served ==
    /\ req.st = "done"
    /\ req' = NoReq
    /\ UNCHANGED <<kind, stack, wrapped, notMW>>

MWInit ==
    /\ kind \in {"Chain", "MiddlewareStack"}
    /\ stack = <<>>
    /\ wrapped = NotWrapped
    /\ req = NoReq

NextMW ==
    \/ \E m \in Middlewares : ChainUse(m)
    \/ \E m \in Middlewares : MiddlewareStackUse(m)
    \/ \E f \in FinalHttpHandlers : ChainHandler(f)
    \/ \E f \in FinalHttpHandlers : MiddlewareStackHandler(f)
    \/ Serve
    \/ RunMiddleware
    \/ RunFinal
    \/ Served

\* ------------------------------------------------------- middleware claims
\* what ran for the request, in order
Ran == [j \in 1..Len(req.trace) |-> req.trace[j].m]

\* every middleware that ran called next
AllCalledNext == \A j \in 1..Len(req.trace) :
                    req.trace[j].m \in Middlewares => req.trace[j].next

\* C4: with middlewares m1..mn stacked with Use in that order, each calling
\* next, one request served by Handler(h) runs m1, m2, ..., mn in that order and
\* then h: the first stacked middleware is the outermost.
C4_FirstStackedIsOutermost ==
    (req.st = "done" /\ AllCalledNext) => Ran = Append(req.from, req.h.final)

C4_Witness ==
    /\ req.st = "done"
    /\ AllCalledNext
    /\ Len(req.from) = 3
    /\ req.from[1] # req.from[3]
    /\ Len(req.trace) = 4

\* C5: if middleware mk handles the request without calling next, the request
\* stops there: m1..mk have run, and no middleware stacked after mk and not the
\* final handler runs.
C5_NoNextStopsRequest ==
    (req.st = "done" /\ ~AllCalledNext) =>
        LET k == CHOOSE j \in 1..Len(req.trace) :
                    /\ ~req.trace[j].next
                    /\ \A i \in 1..(j - 1) : req.trace[i].next
        IN /\ k <= Len(req.from)
           /\ Ran = SubSeq(req.from, 1, k)

C5_Witness ==
    /\ req.st = "done"
    /\ Len(req.from) = 3
    /\ req.from[1] # req.from[2]
    /\ Len(req.trace) = 2
    /\ req.trace[1].next
    /\ ~req.trace[2].next

\* C28: Chain.Handler and MiddlewareStack.Handler compose eagerly: the handler
\* they return wraps exactly the middlewares stacked when they are called, they
\* leave the stack as it is, and a middleware stacked with Use afterwards is
\* never run by a handler returned before.
C28_ComposedEagerly ==
    [][ /\ (\E f \in FinalHttpHandlers : ChainHandler(f) \/ MiddlewareStackHandler(f)) =>
              /\ stack' = stack
              /\ wrapped'.h.mws = stack
        /\ (\E m \in Middlewares : ChainUse(m) \/ MiddlewareStackUse(m)) =>
              wrapped' = wrapped
        /\ (req.st = "idle" /\ req'.st = "run") =>
              /\ req'.h.mws = wrapped.from
              /\ req'.h.final = wrapped.h.final
        /\ \A j \in 1..Len(req'.trace) :
              /\ j <= Len(req'.from) + 1
              /\ j <= Len(req'.from) => req'.trace[j].m = req'.from[j] ]_vars

C28_Witness ==
    /\ req.st = "done"
    /\ AllCalledNext
    /\ req.from = <<1>>
    /\ wrapped.from = <<1>>
    /\ stack = <<1, 2>>
    /\ Len(req.trace) = 2
    /\ req.trace[2].m \in FinalHttpHandlers

\* ==================================================== logging middlewares
\* the NewLoggingMiddleware functions of the repository:
\*   "adhoc"  LogLevel and LogOnlyErrors   (src/adhoc/logger.go)
\*   "bun"    the same, for bunrouter      (src/bun/logger.go)
\*   "check"  LogLevel and LogCheck        (src/unnamed/part_008)
\*   "plain"  no option                    (src/unnamed/part_003)
Variants == {"adhoc", "bun", "check", "plain"}
Levels == {"debug", "info", "warn", "error"}
\* the predicates handed to LogCheck: log every request except /status, or none
CheckFns == {"notStatus", "never"}
Hosts == {"", "example.com"}
Paths == {"/status", "/foo"}
\* the codes the downstream handler passes to WriteHeader
StatusCodes == {200, 302, 399, 400, 404, 499, 500, 501, 503}

\* the options handed to NewLoggingMiddleware: at most one of each kind
NoOptions == [level |-> "unset", onlyErrors |-> "unset", check |-> "unset"]

Given(variant) ==
    CASE variant \in {"adhoc", "bun"} ->
            [level : Levels \cup {"unset"}, onlyErrors : {"unset", "true", "false"},
             check : {"unset"}]
      [] variant = "check" ->
            [level : Levels \cup {"unset"}, onlyErrors : {"unset"},
             check : CheckFns \cup {"unset"}]
      [] OTHER -> {NoOptions}

\* a mutant of DefaultOptions: the default level is Debug
DefaultOptionsDebug == [level |-> "debug", onlyErrors |-> FALSE, logCheckFn |-> "nil"]

\* newDefaultLoggingMiddlewareOptions()
DefaultOptions == [level |-> "info", onlyErrors |-> FALSE, logCheckFn |-> "nil"]

\* LogLevel(level)(opts)
LogLevel(opts, level) == [opts EXCEPT !.level = level]

\* LogOnlyErrors(enabled)(opts)
LogOnlyErrors(opts, enabled) == [opts EXCEPT !.onlyErrors = enabled]

\* LogCheck(fn)(opts)
LogCheck(opts, fn) == [opts EXCEPT !.logCheckFn = fn]

\* opts := newDefault...(); for _, o := range opt { o(opts) }
ApplyOptions(given) ==
    LET o1 == IF given.level = "unset" THEN DefaultOptions
              ELSE LogLevel(DefaultOptions, given.level)
        o2 == IF given.onlyErrors = "unset" THEN o1
              ELSE LogOnlyErrors(o1, given.onlyErrors = "true")
    IN IF given.check = "unset" THEN o2 ELSE LogCheck(o2, given.check)

\* fn(r) for the predicates of CheckFns
CheckFn(fn, path) == IF fn = "notStatus" THEN path # "/status" ELSE FALSE

\* a mutant of NewLoggingWriter: the writer starts with the status the
\* transport sends when WriteHeader is never called
NewLoggingWriterOK == [StatusCode |-> 200, Size |-> 0]

\* NewLoggingWriter(w)
NewLoggingWriter == [StatusCode |-> 0, Size |-> 0]

\* a mutant of LoggingWriterWrite: Size is the length of the last buffer
LoggingWriterWriteLast(w, n) == [w EXCEPT !.Size = n]

\* func (w *LoggingWriter) Write(b): w.Size += len(b)
LoggingWriterWrite(w, n) == [w EXCEPT !.Size = @ + n]

\* a mutant of LoggingWriterWriteHeader: the first code is kept, as the
\* transport does
LoggingWriterWriteHeaderFirst(w, code) ==
    IF w.StatusCode = 0 THEN [w EXCEPT !.StatusCode = code] ELSE w

\* func (w *LoggingWriter) WriteHeader(code): w.StatusCode = code
LoggingWriterWriteHeader(w, code) == [w EXCEPT !.StatusCode = code]

\* a mutant of StripHost: the host is left in the logged URL
StripHostKept(u) == u

\* ru := *r.URL; ru.Host = ""
StripHost(u) == [u EXCEPT !.host = ""]

\* the fields of one record: zap.Stringer("url", &ru), zap.Int("status_code", ...),
\* zap.Int("response_size", ...)
Record(level, ru, lw) ==
    [level |-> level, url |-> ru, status_code |-> lw.StatusCode, response_size |-> lw.Size]

Emitted(recs, n) == [logs |-> recs, checks |-> n]

\* a mutant of EmitAdhoc: the first case drops its status test, so that
\* LogOnlyErrors(true) silences every request
EmitAdhocSilent(opts, lw, ru) ==
    IF opts.onlyErrors THEN Emitted(<<>>, 0)
    ELSE IF ~opts.onlyErrors /\ lw.StatusCode < 400
    THEN Emitted(<<Record(opts.level, ru, lw)>>, 0)
    ELSE IF lw.StatusCode >= 400 /\ lw.StatusCode < 500
    THEN Emitted(<<Record("warn", ru, lw)>>, 0)
    ELSE IF lw.StatusCode > 500
    THEN Emitted(<<Record("error", ru, lw)>>, 0)
    ELSE Emitted(<<>>, 0)

\* the switch of src/adhoc/logger.go
EmitAdhoc(opts, lw, ru) ==
    IF opts.onlyErrors /\ lw.StatusCode < 400
    THEN Emitted(<<>>, 0)
    ELSE IF ~opts.onlyErrors /\ lw.StatusCode < 400
    THEN Emitted(<<Record(opts.level, ru, lw)>>, 0)
    ELSE IF lw.StatusCode >= 400 /\ lw.StatusCode < 500
    THEN Emitted(<<Record("warn", ru, lw)>>, 0)
    ELSE IF lw.StatusCode > 500
    THEN Emitted(<<Record("error", ru, lw)>>, 0)
    ELSE Emitted(<<>>, 0)

\* the switch of src/bun/logger.go
EmitBun(opts, lw, ru) ==
    IF opts.onlyErrors /\ lw.StatusCode < 400
    THEN Emitted(<<>>, 0)
    ELSE IF ~opts.onlyErrors /\ lw.StatusCode < 400
    THEN Emitted(<<Record(opts.level, ru, lw)>>, 0)
    ELSE IF lw.StatusCode >= 400 /\ lw.StatusCode < 500
    THEN Emitted(<<Record("warn", ru, lw)>>, 0)
    ELSE IF lw.StatusCode > 500
    THEN Emitted(<<Record("error", ru, lw)>>, 0)
    ELSE Emitted(<<>>, 0)

\* the switch of src/unnamed/part_008; path is r.URL.Path when fn(r) is called
EmitCheck(opts, lw, ru, path) ==
    IF lw.StatusCode < 400
    THEN IF opts.logCheckFn # "nil" /\ ~CheckFn(opts.logCheckFn, path)
         THEN Emitted(<<>>, 1)
         ELSE Emitted(<<Record(opts.level, ru, lw)>>, IF opts.logCheckFn # "nil" THEN 1 ELSE 0)
    ELSE IF lw.StatusCode >= 400 /\ lw.StatusCode < 500
    THEN Emitted(<<Record("warn", ru, lw)>>, 0)
    ELSE IF lw.StatusCode > 500
    THEN Emitted(<<Record("error", ru, lw)>>, 0)
    ELSE Emitted(<<>>, 0)

\* src/unnamed/part_003: logger.Info, whatever the status
EmitPlain(lw, ru) == Emitted(<<Record("info", ru, lw)>>, 0)

Emit(cfg, lw, ru, path) ==
    CASE cfg.variant = "adhoc" -> EmitAdhoc(ApplyOptions(cfg.given), lw, ru)
      [] cfg.variant = "bun" -> EmitBun(ApplyOptions(cfg.given), lw, ru)
      [] cfg.variant = "check" -> EmitCheck(ApplyOptions(cfg.given), lw, ru, path)
      [] OTHER -> EmitPlain(lw, ru)

NoLReq == [st |-> "idle", url |-> [host |-> "", path |-> ""], entry |-> [host |-> "", path |-> ""],
           ru |-> [host |-> "", path |-> ""], lw |-> NewLoggingWriter, headed |-> FALSE,
           logs |-> <<>>, checks |-> 0]

\* the middleware is entered: lw, ru, then next.ServeHTTP(lw, r)
LogEnter(u) ==
    /\ lreq.st = "idle"
    /\ lreq' = [st |-> "next", url |-> u, entry |-> u, ru |-> StripHost(u),
                lw |-> NewLoggingWriter, headed |-> FALSE, logs |-> <<>>, checks |-> 0]
    /\ UNCHANGED <<logCfg, notLog>>

\* the downstream handler calls w.WriteHeader(code)
NextWriteHeader(code) ==
    /\ lreq.st = "next"
    /\ lreq' = [lreq EXCEPT !.lw = LoggingWriterWriteHeader(@, code), !.headed = TRUE]
    /\ UNCHANGED <<logCfg, notLog>>

\* the downstream handler calls w.Write(b) with len(b) = n
NextWrite(n) ==
    /\ lreq.st = "next"
    /\ lreq.lw.Size + n <= MaxBody
    /\ lreq' = [lreq EXCEPT !.lw = LoggingWriterWrite(@, n)]
    /\ UNCHANGED <<logCfg, notLog>>

\* the downstream handler routes with ShiftPath and stores the tail in r.URL.Path
NextShiftPath(path) ==
    /\ lreq.st = "next"
    /\ path # lreq.url.path
    /\ lreq.url = lreq.entry
    /\ lreq' = [lreq EXCEPT !.url.path = path]
    /\ UNCHANGED <<logCfg, notLog>>

\* next.ServeHTTP has returned: the switch on the recorded status
LogReturn ==
    /\ lreq.st = "next"
    /\ LET e == Emit(logCfg, lreq.lw, lreq.ru, lreq.url.path)
       IN lreq' = [lreq EXCEPT !.st = "done", !.logs = e.logs, !.checks = e.checks]
    /\ UNCHANGED <<logCfg, notLog>>

\* the middleware has returned
LogDone ==
    /\ lreq.st = "done"
    /\ lreq' = NoLReq
    /\ UNCHANGED <<logCfg, notLog>>

LogInit ==
    /\ \E v \in Variants : \E g \in Given(v) : logCfg = [variant |-> v, given |-> g]
    /\ lreq = NoLReq

NextLog ==
    \/ \E h \in Hosts, p \in Paths : LogEnter([host |-> h, path |-> p])
    \/ \E code \in StatusCodes : NextWriteHeader(code)
    \/ \E n \in 0..MaxBody : NextWrite(n)
    \/ \E p \in Paths : NextShiftPath(p)
    \/ LogReturn
    \/ LogDone

\* ------------------------------------------------------------ logging claims
\* the middleware has finished one request
Logged == lreq.st = "done"

\* the middlewares that classify by status (all but "plain")
Classifies == logCfg.variant \in {"adhoc", "bun", "check"}

\* C6: for every request whose recorded status code is >= 500 (500 included)
\* exactly one record is emitted, at Error severity, whatever the options.
C6_ServerErrorLoggedAtError ==
    (Logged /\ Classifies /\ lreq.lw.StatusCode >= 500) =>
        /\ Len(lreq.logs) = 1
        /\ lreq.logs[1].level = "error"

\* what the code does instead: the same for every status above 500, and no
\* record at all for status 500
C6_Above500 ==
    (Logged /\ Classifies) =>
        /\ lreq.lw.StatusCode > 500 => Len(lreq.logs) = 1 /\ lreq.logs[1].level = "error"
        /\ lreq.lw.StatusCode = 500 => lreq.logs = <<>>

\* C7: for every request whose recorded status code is in 400..499 exactly one
\* record is emitted, at Warn severity, whatever the options.
C7_ClientErrorLoggedAtWarn ==
    (Logged /\ Classifies /\ lreq.lw.StatusCode >= 400 /\ lreq.lw.StatusCode <= 499) =>
        /\ Len(lreq.logs) = 1
        /\ lreq.logs[1].level = "warn"

C7_Witness ==
    /\ Logged
    /\ logCfg.variant = "adhoc"
    /\ logCfg.given.onlyErrors = "true"
    /\ logCfg.given.level = "error"
    /\ lreq.lw.StatusCode = 404
    /\ Len(lreq.logs) = 1

\* C8: for a request whose recorded status code is < 400, LogOnlyErrors(true)
\* emits no record; LogOnlyErrors(false), the default, emits exactly one, at the
\* level given by LogLevel (Info when LogLevel was not given).
C8_NonErrors ==
    (Logged /\ logCfg.variant \in {"adhoc", "bun"} /\ lreq.lw.StatusCode < 400) =>
        IF logCfg.given.onlyErrors = "true"
        THEN lreq.logs = <<>>
        ELSE /\ Len(lreq.logs) = 1
             /\ lreq.logs[1].level =
                    IF logCfg.given.level = "unset" THEN "info" ELSE logCfg.given.level

C8_Witness ==
    /\ Logged
    /\ logCfg.variant = "bun"
    /\ logCfg.given = NoOptions
    /\ lreq.lw.StatusCode = 200
    /\ Len(lreq.logs) = 1
    /\ lreq.logs[1].level = "info"

\* C9: with a LogCheck predicate fn, fn is called only for requests whose
\* recorded status code is < 400, and such a request is logged if and only if
\* fn returns true; for a status >= 400 fn is not called and the request is
\* logged anyway.
C9_LogCheck ==
    (Logged /\ logCfg.variant = "check" /\ logCfg.given.check # "unset") =>
        IF lreq.lw.StatusCode < 400
        THEN /\ lreq.checks = 1
             /\ Len(lreq.logs) = 1 <=> CheckFn(logCfg.given.check, lreq.url.path)
        ELSE /\ lreq.checks = 0
             /\ Len(lreq.logs) = 1

\* what the code does: C9 for every status but 500, where nothing is logged
C9_Except500 ==
    (Logged /\ logCfg.variant = "check" /\ logCfg.given.check # "unset") =>
        IF lreq.lw.StatusCode < 400
        THEN /\ lreq.checks = 1
             /\ Len(lreq.logs) = 1 <=> CheckFn(logCfg.given.check, lreq.url.path)
        ELSE /\ lreq.checks = 0
             /\ Len(lreq.logs) = IF lreq.lw.StatusCode = 500 THEN 0 ELSE 1

\* C10: every record emitted carries the request URL with its host cleared, the
\* status recorded by the wrapping response writer and the number of body bytes
\* it recorded.
C10_RecordFields ==
    Logged =>
        \A j \in 1..Len(lreq.logs) :
            /\ lreq.logs[j].url = [host |-> "", path |-> lreq.entry.path]
            /\ lreq.logs[j].status_code = lreq.lw.StatusCode
            /\ lreq.logs[j].response_size = lreq.lw.Size

C10_Witness ==
    /\ Logged
    /\ Len(lreq.logs) = 1
    /\ lreq.entry.host = "example.com"
    /\ lreq.url.path # lreq.entry.path
    /\ lreq.lw.StatusCode = 200
    /\ lreq.lw.Size = 2

\* the level given with LogLevel, Info by default
ConfiguredLevel == IF logCfg.given.level = "unset" THEN "info" ELSE logCfg.given.level

\* C29: when the downstream handler returns without ever calling WriteHeader the
\* recorded status is still 0, so the request counts as a non-error: it is
\* logged once with status_code 0 at the configured level, or not at all under
\* LogOnlyErrors(true) or under a LogCheck predicate that returns false.
C29_NoWriteHeaderIsNonError ==
    (Logged /\ ~lreq.headed) =>
        /\ lreq.lw.StatusCode = 0
        /\ IF \/ logCfg.given.onlyErrors = "true"
              \/ (logCfg.given.check # "unset" /\ ~CheckFn(logCfg.given.check, lreq.url.path))
           THEN lreq.logs = <<>>
           ELSE /\ Len(lreq.logs) = 1
                /\ lreq.logs[1].status_code = 0
                /\ lreq.logs[1].level = ConfiguredLevel

C29_Witness ==
    /\ Logged
    /\ ~lreq.headed
    /\ logCfg.variant = "check"
    /\ logCfg.given.level = "debug"
    /\ logCfg.given.check = "unset"
    /\ lreq.lw.Size = 2
    /\ Len(lreq.logs) = 1
    /\ lreq.logs[1].status_code = 0
    /\ lreq.logs[1].level = "debug"

\* the silent cases: LogOnlyErrors(true), and a LogCheck predicate returning false
C29_Silent ==
    /\ Logged
    /\ ~lreq.headed
    /\ logCfg.variant = "check"
    /\ logCfg.given.check = "never"
    /\ lreq.checks = 1
    /\ lreq.logs = <<>>

\* ============================================================ LoggingWriter
\* the codes a handler passes to WriteHeader
HeaderCodes == {200, 404, 500}
\* what the underlying writer's Hijack can return: (conn, rw, err)
HijackResults == {[conn |-> "conn", rw |-> "rw", err |-> "nil"],
                  [conn |-> "nil", rw |-> "nil", err |-> "ErrHijacked"]}
NoReturn == [op |-> "none"]

RECURSIVE SumSeq(_)
SumSeq(q) == IF q = <<>> THEN 0 ELSE Head(q) + SumSeq(Tail(q))

\* the underlying http.ResponseWriter: whether it is an http.Hijacker, the
\* status it sent (the first WriteHeader wins, a Write before any WriteHeader
\* sends 200)
NewUnderlying(hijacker) == [hijacker |-> hijacker, status |-> 0]

UnderlyingWriteHeader(u, code) == IF u.status = 0 THEN [u EXCEPT !.status = code] ELSE u

UnderlyingWrite(u, m) == [u EXCEPT !.status = IF @ = 0 THEN 200 ELSE @]

\* a mutant of LoggingWriterHijack: a writer that is no Hijacker gives an error
\* value
LoggingWriterHijackError(u, res) ==
    IF ~u.hijacker
    THEN [panic |-> FALSE,
          ret |-> [op |-> "Hijack", conn |-> "nil", rw |-> "nil", err |-> "not a Hijacker"]]
    ELSE [panic |-> FALSE,
          ret |-> [op |-> "Hijack", conn |-> res.conn, rw |-> res.rw, err |-> res.err]]

\* func (w *LoggingWriter) Hijack(): res is what v.Hijack() returns when the
\* underlying writer is a Hijacker
LoggingWriterHijack(u, res) ==
    IF ~u.hijacker
    THEN [panic |-> TRUE, ret |-> NoReturn]
    ELSE [panic |-> FALSE,
          ret |-> [op |-> "Hijack", conn |-> res.conn, rw |-> res.rw, err |-> res.err]]

\* NewLoggingWriter(underlying); nothing has been called on it
NewWriter(hijacker) ==
    [st |-> "live", lw |-> NewLoggingWriter, und |-> NewUnderlying(hijacker),
     lens |-> <<>>, codes |-> <<>>, hijacks |-> <<>>, hret |-> NoReturn,
     ret |-> NoReturn]

\* w.Write(b) with len(b) = n; the underlying writer accepts m <= n bytes and
\* returns (m, err)
Write(n, m, err) ==
    /\ wr.st = "live"
    /\ Len(wr.lens) < MaxWrites
    /\ m <= n
    /\ err = "nil" => m = n
    /\ wr' = [wr EXCEPT !.lw = LoggingWriterWrite(@, n),
                        !.und = UnderlyingWrite(@, m),
                        !.lens = Append(@, n),
                        !.ret = [op |-> "Write", n |-> m, err |-> err]]
    /\ UNCHANGED notWriter

\* w.WriteHeader(code)
WriteHeader(code) ==
    /\ wr.st = "live"
    /\ Len(wr.codes) < MaxHeaderCalls
    /\ wr' = [wr EXCEPT !.lw = LoggingWriterWriteHeader(@, code),
                        !.und = UnderlyingWriteHeader(@, code),
                        !.codes = Append(@, code),
                        !.ret = [op |-> "WriteHeader"]]
    /\ UNCHANGED notWriter

\* w.Hijack(); a panic unwinds the handler, nothing more is called on w
Hijack(res) ==
    /\ wr.st = "live"
    /\ wr.hijacks = <<>>
    /\ LET out == LoggingWriterHijack(wr.und, res)
       IN wr' = [wr EXCEPT !.st = IF out.panic THEN "panicked" ELSE "live",
                           !.ret = out.ret,
                           !.hret = out.ret,
                           !.hijacks = IF wr.und.hijacker THEN Append(@, res)
                                       ELSE Append(@, NoReturn)]
    /\ UNCHANGED notWriter

WriterInit == \E hijacker \in BOOLEAN : wr = NewWriter(hijacker)

NextWriter ==
    \/ \E n \in 0..MaxChunk, m \in 0..MaxChunk, err \in {"nil", "EPIPE"} : Write(n, m, err)
    \/ \E code \in HeaderCodes : WriteHeader(code)
    \/ \E res \in HijackResults : Hijack(res)

\* ----------------------------------------------------- LoggingWriter claims
\* C11: Size is cumulative: it is 0 on a new writer and after Write calls with
\* buffers b1..bk it equals len(b1)+...+len(bk), whatever the underlying writer
\* returned (short writes and errors included); so it never decreases.
C11_SizeIsCumulative == wr.lw.Size = SumSeq(wr.lens)

C11_Witness ==
    /\ Len(wr.lens) = 3
    /\ wr.lens[1] = 2
    /\ wr.lens[2] = 1
    /\ wr.ret.op = "Write"
    /\ wr.ret.err = "EPIPE"
    /\ wr.ret.n < wr.lens[3]
    /\ wr.lw.Size = 5

\* C12: StatusCode is 0 until WriteHeader is called and then the code given to
\* the most recent WriteHeader call, even though the underlying writer keeps the
\* first.
C12_StatusIsLastCode ==
    wr.lw.StatusCode = IF wr.codes = <<>> THEN 0 ELSE wr.codes[Len(wr.codes)]

C12_Witness ==
    /\ Len(wr.codes) = 2
    /\ wr.codes[1] = 200
    /\ wr.codes[2] = 500
    /\ wr.und.status = 200
    /\ wr.lw.StatusCode = 500

\* C13: Hijack on a writer whose underlying writer is a Hijacker returns what
\* the underlying Hijack returned, unchanged; on any other writer it panics and
\* returns nothing, in particular no error value.
C13_HijackForwardsOrPanics ==
    wr.hijacks # <<>> =>
        IF wr.und.hijacker
        THEN /\ wr.st = "live"
             /\ wr.hret = [op |-> "Hijack", conn |-> wr.hijacks[1].conn,
                           rw |-> wr.hijacks[1].rw, err |-> wr.hijacks[1].err]
        ELSE /\ wr.st = "panicked"
             /\ wr.hret = NoReturn

C13_Witness ==
    /\ wr.hijacks # <<>>
    /\ ~wr.und.hijacker
    /\ wr.st = "panicked"
    /\ wr.lens # <<>>

\* the other case: an underlying error comes back as it is
C13_ForwardedError ==
    /\ wr.hijacks # <<>>
    /\ wr.und.hijacker
    /\ wr.hret.op = "Hijack"
    /\ wr.hret.err = "ErrHijacked"

\* ================================================================ ShiftPath
\* a string is the sequence of its characters
Chars == {"/", ".", "a"}
Slash == <<"/">>

\* the inputs of the tests (src/unnamed/part_001)
ExCopy == <<"/", "c", "o", "p", "y">>
ExRoot == <<"/">>
ExApi == <<"/", "a", "p", "i", "/", "v", "1", "/", "h", "e", "l", "l", "o">>
ExDot == <<".">>
Examples == {ExCopy, ExRoot, ExApi, ExDot}

ShiftInputs == UNION {[1..k -> Chars] : k \in 0..MaxPathLen} \cup Examples

RECURSIVE SplitFrom(_, _, _, _)
\* the elements of s between slashes, empty ones included
SplitFrom(s, i, cur, acc) ==
    IF i > Len(s) THEN Append(acc, cur)
    ELSE IF s[i] = "/" THEN SplitFrom(s, i + 1, <<>>, Append(acc, cur))
    ELSE SplitFrom(s, i + 1, Append(cur, s[i]), acc)

Split(s) == SplitFrom(s, 1, <<>>, <<>>)

RECURSIVE CleanElems(_, _, _)
\* path.Clean on the elements of a rooted path: empty and "." elements are
\* dropped, ".." drops the element before it, ".." at the root is dropped
CleanElems(elems, i, out) ==
    IF i > Len(elems) THEN out
    ELSE IF elems[i] = <<>> \/ elems[i] = <<".">> THEN CleanElems(elems, i + 1, out)
    ELSE IF elems[i] = <<".", ".">>
    THEN CleanElems(elems, i + 1, IF out = <<>> THEN out ELSE SubSeq(out, 1, Len(out) - 1))
    ELSE CleanElems(elems, i + 1, Append(out, elems[i]))

RECURSIVE Join(_)
\* "/" + e1 + "/" + e2 + ...
Join(elems) == IF elems = <<>> THEN <<>> ELSE Slash \o Head(elems) \o Join(Tail(elems))

\* a mutant of Clean: the path is left as it is
CleanNot(s) == s

\* path.Clean(s) for a rooted s
Clean(s) ==
    LET out == CleanElems(Split(s), 1, <<>>)
    IN IF out = <<>> THEN Slash ELSE Join(out)

RECURSIVE IndexFrom(_, _)
IndexFrom(s, i) ==
    IF i > Len(s) THEN -1 ELSE IF s[i] = "/" THEN i - 1 ELSE IndexFrom(s, i + 1)

\* strings.Index(s, "/")
Index(s) == IndexFrom(s, 1)

\* a mutant of ShiftPath: the tail is cut after the slash
ShiftPathCutSlash(p) ==
    LET q == Tail(Clean(Slash \o p))
        pos == Index(q)
    IN IF pos = -1 THEN [head |-> q, tail |-> Slash]
       ELSE [head |-> SubSeq(q, 1, pos), tail |-> SubSeq(q, pos + 2, Len(q))]

\* a mutant of ShiftPath: the tail is the whole cleaned path, head included
ShiftPathKeepHead(p) ==
    LET q == Tail(Clean(Slash \o p))
        pos == Index(q)
    IN IF pos = -1 THEN [head |-> q, tail |-> Slash]
       ELSE [head |-> SubSeq(q, 1, pos), tail |-> Slash \o q]

\* func ShiftPath(p string) (head string, tail string)
ShiftPath(p) ==
    LET q == Tail(Clean(Slash \o p))
        pos == Index(q)
    IN IF pos = -1 THEN [head |-> q, tail |-> Slash]
       ELSE [head |-> SubSeq(q, 1, pos), tail |-> SubSeq(q, pos + 1, Len(q))]

NewPath(p) == [path |-> p, calls |-> <<>>]

\* head, req.URL.Path = ShiftPath(req.URL.Path)
Shift ==
    /\ Len(sp.calls) < MaxShifts
    /\ LET r == ShiftPath(sp.path)
       IN sp' = [path |-> r.tail,
                 calls |-> Append(sp.calls, [p |-> sp.path, head |-> r.head, tail |-> r.tail])]
    /\ UNCHANGED notShift

ShiftInit == \E p \in ShiftInputs : sp = NewPath(p)

NextShift == Shift

\* --------------------------------------------------------- ShiftPath claims
HasSlash(s) == \E i \in 1..Len(s) : s[i] = "/"

\* the elements of a cleaned path
Segments(q) == SelectSeq(Split(q), LAMBDA e : e # <<>>)

\* C14: for every input p, ShiftPath(p) returns a head with no slash in it and
\* a tail that starts with "/" and is exactly "/" or has no trailing slash.
C14_HeadTailShape ==
    \A j \in 1..Len(sp.calls) :
        LET c == sp.calls[j]
        IN /\ ~HasSlash(c.head)
           /\ c.tail # <<>>
           /\ c.tail[1] = "/"
           /\ c.tail = Slash \/ c.tail[Len(c.tail)] # "/"

C14_Witness ==
    /\ Len(sp.calls) = 1
    /\ sp.calls[1].p = <<"a", "/", "a", "/">>
    /\ sp.calls[1].head = <<"a">>
    /\ sp.calls[1].tail = <<"/", "a">>

\* C15: ShiftPath(p) returns as head the first segment of Clean("/" + p), ""
\* when the cleaned path is "/", and as tail the remaining segments with a
\* leading slash, "/" when there is at most one segment; "/copy" gives
\* ("copy", "/"), "/" gives ("", "/"), "/api/v1/hello" gives ("api",
\* "/v1/hello") and "." gives ("", "/").
C15_HeadIsFirstSegment ==
    \A j \in 1..Len(sp.calls) :
        LET c == sp.calls[j]
            segs == Segments(Clean(Slash \o c.p))
        IN /\ c.head = IF segs = <<>> THEN <<>> ELSE segs[1]
           /\ c.tail = IF Len(segs) <= 1 THEN Slash ELSE Join(Tail(segs))
           /\ c.p = ExCopy => c.head = <<"c", "o", "p", "y">> /\ c.tail = Slash
           /\ c.p = ExRoot => c.head = <<>> /\ c.tail = Slash
           /\ c.p = ExApi => /\ c.head = <<"a", "p", "i">>
                             /\ c.tail = <<"/", "v", "1", "/", "h", "e", "l", "l", "o">>
           /\ c.p = ExDot => c.head = <<>> /\ c.tail = Slash

C15_Witness ==
    /\ Len(sp.calls) = 1
    /\ sp.calls[1].p = ExApi
    /\ sp.calls[1].head = <<"a", "p", "i">>
    /\ sp.calls[1].tail = <<"/", "v", "1", "/", "h", "e", "l", "l", "o">>

\* C30: repeated shifting terminates: starting from a path whose cleaned form
\* has n segments and replacing the path by the tail each time, the heads are
\* the n segments in order, each call takes exactly one segment off, and from
\* the n+1st call on ShiftPath returns ("", "/"), where the path stays.
C30_RepeatedShiftTerminates ==
    sp.calls # <<>> =>
        LET segs == Segments(Clean(Slash \o sp.calls[1].p))
            n == Len(segs)
        IN \A j \in 1..Len(sp.calls) :
              LET c == sp.calls[j]
              IN /\ j > 1 => c.p = sp.calls[j - 1].tail
                 /\ j <= n => /\ c.head = segs[j]
                              /\ Segments(c.tail) = SubSeq(segs, j + 1, n)
                 /\ j > n => c.head = <<>> /\ c.tail = Slash
                 /\ j > n + 1 => c.p = Slash

C30_Witness ==
    /\ Len(sp.calls) = 3
    /\ sp.calls[1].p = <<"a", "/", ".", "a">>
    /\ sp.calls[1].head = <<"a">>
    /\ sp.calls[2].head = <<".", "a">>
    /\ sp.calls[2].tail = Slash
    /\ sp.calls[3].head = <<>>
    /\ sp.calls[3].tail = Slash
    /\ sp.path = Slash

\* the path of the documentation, three segments long
C30_ThreeSegments ==
    /\ Len(sp.calls) = 3
    /\ sp.calls[1].p = ExApi
    /\ sp.calls[2].head = <<"v", "1">>
    /\ sp.calls[3].head = <<"h", "e", "l", "l", "o">>
    /\ sp.path = Slash

\* ================================================= timed logging middlewares
\* the versions of NewLoggingMiddleware that hand the measured time on:
\*   "logfn"    NewLoggingMiddleware(logFn)             (src/unnamed/part_009)
\*   "options"  NewLoggingMiddleware(*LoggingOptions)   (src/router.go)
\*   "plain"    NewLoggingMiddleware(*zap.Logger)       (src/unnamed/part_003)
TimedVariants == {"logfn", "options", "plain"}

\* a field a line does not have
Absent == <<>>
\* the nil pointer
NilOptions == [nil |-> TRUE]
\* *LoggingOptions: nil, or the three fields; Log is nil or a function
LoggingOptionsValues ==
    {NilOptions} \cup [WithExecutionTime : BOOLEAN, WithHeaders : BOOLEAN,
                       Log : {"nil", "fn"}]

TimedArgs(variant) == IF variant = "options" THEN LoggingOptionsValues ELSE {NilOptions}

\* the paths of a request and what ShiftPath leaves of them
TimedPaths == {<<"/", "a", "/", "a">>, <<"/", "a">>}

\* a mutant of Since: the time read before the call is reported
SinceStart(start, now) == start

\* time.Since(start), the clock reading now
Since(start, now) == now - start

\* elapsed/time.Millisecond
Milliseconds(d) == d \div TicksPerMs

\* logFunc := log.Printf; if options != nil && options.Log != nil { logFunc = options.Log }
LogFunc(options) ==
    IF options # NilOptions /\ options.Log # "nil" THEN "options.Log" ELSE "log.Printf"

Line(sink, status, path, headers, size, elapsed) ==
    [sink |-> sink, status |-> status, path |-> path, headers |-> headers,
     size |-> size, elapsed |-> elapsed]

\* the switch of NewLoggingMiddleware(options): the lines given to logFunc
OptionsLines(options, lw, path, elapsed) ==
    IF options = NilOptions
    THEN <<Line(LogFunc(options), lw.StatusCode, path, Absent, lw.Size, Absent)>>
    ELSE IF options.WithExecutionTime /\ options.WithHeaders
    THEN <<Line(LogFunc(options), lw.StatusCode, path, <<"r.Header">>, lw.Size,
                <<Milliseconds(elapsed)>>)>>
    ELSE IF options.WithExecutionTime
    THEN <<Line(LogFunc(options), lw.StatusCode, path, Absent, lw.Size,
                <<Milliseconds(elapsed)>>)>>
    ELSE IF options.WithHeaders
    THEN <<Line(LogFunc(options), lw.StatusCode, path, <<"r.Header">>, lw.Size, Absent)>>
    ELSE <<>>

\* logFn(r, lw.statusCode, lw.size, elapsed), after r.URL.Path = originalPath
LogFnLines(lw, originalPath, elapsed) ==
    <<Line("logFn", lw.StatusCode, originalPath, Absent, lw.Size, <<elapsed>>)>>

\* logger.Info("request handled", zap.Stringer("url", &ru), ...)
PlainLines(lw, ru, elapsed) ==
    <<Line("logger.Info", lw.StatusCode, ru, Absent, lw.Size, <<elapsed>>)>>

NewTimed ==
    [pc |-> "idle", now |-> 0, start |-> 0, elapsed |-> 0, tEnter |-> 0, tLeave |-> 0,
     entry |-> <<>>, path |-> <<>>, saved |-> <<>>, lw |-> NewLoggingWriter, lines |-> <<>>]

\* time passes
Tick ==
    /\ tm.now < MaxClock
    /\ tm.pc \notin {"idle", "done"}
    /\ tm' = [tm EXCEPT !.now = @ + 1]
    /\ UNCHANGED <<tcfg, notTimed>>

\* the middleware is entered: lw, and originalPath := r.URL.Path or ru := *r.URL
TimedEnter(path) ==
    /\ tm.pc = "idle"
    /\ tm' = [tm EXCEPT !.pc = "stamp", !.entry = path, !.path = path,
                        !.saved = IF tcfg.variant = "options" THEN <<>> ELSE path]
    /\ UNCHANGED <<tcfg, notTimed>>

\* start := time.Now()
TimedStamp ==
    /\ tm.pc = "stamp"
    /\ tm' = [tm EXCEPT !.pc = "call", !.start = tm.now]
    /\ UNCHANGED <<tcfg, notTimed>>

\* next.ServeHTTP(lw, r) is entered
TimedCallNext ==
    /\ tm.pc = "call"
    /\ tm' = [tm EXCEPT !.pc = "next", !.tEnter = tm.now]
    /\ UNCHANGED <<tcfg, notTimed>>

\* the downstream handler routes: head, r.URL.Path = ShiftPath(r.URL.Path)
HandlerShift ==
    /\ tm.pc = "next"
    /\ tm.path = tm.entry
    /\ tm' = [tm EXCEPT !.path = ShiftPath(@).tail]
    /\ UNCHANGED <<tcfg, notTimed>>

\* the downstream handler answers: w.WriteHeader(code); io.WriteString(w, b)
HandlerRespond(code, n) ==
    /\ tm.pc = "next"
    /\ tm.lw = NewLoggingWriter
    /\ tm' = [tm EXCEPT !.lw = LoggingWriterWrite(LoggingWriterWriteHeader(@, code), n)]
    /\ UNCHANGED <<tcfg, notTimed>>

\* next.ServeHTTP returns
TimedNextReturns ==
    /\ tm.pc = "next"
    /\ tm' = [tm EXCEPT !.pc = "since", !.tLeave = tm.now]
    /\ UNCHANGED <<tcfg, notTimed>>

\* elapsed := time.Since(start)
TimedSince ==
    /\ tm.pc = "since"
    /\ tm' = [tm EXCEPT !.pc = "log", !.elapsed = Since(tm.start, tm.now)]
    /\ UNCHANGED <<tcfg, notTimed>>

\* the log call; the logFn version restores r.URL.Path first
TimedLog ==
    /\ tm.pc = "log"
    /\ tm' = [tm EXCEPT
                !.pc = "done",
                !.path = IF tcfg.variant = "logfn" THEN tm.saved ELSE @,
                !.lines = CASE tcfg.variant = "logfn" ->
                                    LogFnLines(tm.lw, tm.saved, tm.elapsed)
                            [] tcfg.variant = "options" ->
                                    OptionsLines(tcfg.arg, tm.lw, tm.path, tm.elapsed)
                            [] OTHER -> PlainLines(tm.lw, tm.saved, tm.elapsed)]
    /\ UNCHANGED <<tcfg, notTimed>>

TimedInit ==
    /\ \E v \in TimedVariants : \E a \in TimedArgs(v) : tcfg = [variant |-> v, arg |-> a]
    /\ tm = NewTimed

NextTimed ==
    \/ Tick
    \/ \E path \in TimedPaths : TimedEnter(path)
    \/ TimedStamp
    \/ TimedCallNext
    \/ HandlerShift
    \/ \E code \in HeaderCodes, n \in 0..MaxChunk : HandlerRespond(code, n)
    \/ TimedNextReturns
    \/ TimedSince
    \/ TimedLog

\* ------------------------------------------------- timed middleware claims
TimedDone == tm.pc = "done"

\* the time the downstream handler spent
Spent == tm.tLeave - tm.tEnter

\* C16: the start time is stamped before next is invoked and elapsed is computed
\* after next returns, so the elapsed value logged is never smaller than the
\* time the downstream handler spent; the options version logs it in whole
\* milliseconds, the others as a Duration.
C16_ElapsedCoversNext ==
    TimedDone =>
        /\ tm.start <= tm.tEnter
        /\ tm.elapsed >= Spent
        /\ \A j \in 1..Len(tm.lines) :
              tm.lines[j].elapsed # Absent =>
                 IF tcfg.variant = "options"
                 THEN tm.lines[j].elapsed[1] >= Milliseconds(Spent)
                 ELSE tm.lines[j].elapsed[1] >= Spent

C16_Witness ==
    /\ TimedDone
    /\ tcfg.variant = "logfn"
    /\ tm.start = 1
    /\ Spent = 2
    /\ Len(tm.lines) = 1
    /\ tm.lines[1].elapsed = <<2>>

\* C17: NewLoggingMiddleware(options) logs every request: for every options
\* value, nil or not, both flags false included, exactly one line goes to the
\* configured log function, with the status code, the URL path and the response
\* length; the execution time is in it iff WithExecutionTime is set and the
\* headers iff WithHeaders is set.
C17_OptionsAlwaysLogs ==
    (TimedDone /\ tcfg.variant = "options") =>
        /\ Len(tm.lines) = 1
        /\ tm.lines[1].sink = LogFunc(tcfg.arg)
        /\ tm.lines[1].status = tm.lw.StatusCode
        /\ tm.lines[1].path = tm.path
        /\ tm.lines[1].size = tm.lw.Size
        /\ tm.lines[1].elapsed # Absent <=>
              (tcfg.arg # NilOptions /\ tcfg.arg.WithExecutionTime)
        /\ tm.lines[1].headers # Absent <=>
              (tcfg.arg # NilOptions /\ tcfg.arg.WithHeaders)

\* what the code does: C17 unless options is not nil and has both flags false,
\* and then no line at all
C17_ExceptNoFlags ==
    (TimedDone /\ tcfg.variant = "options") =>
        IF tcfg.arg # NilOptions /\ ~tcfg.arg.WithExecutionTime /\ ~tcfg.arg.WithHeaders
        THEN tm.lines = <<>>
        ELSE /\ Len(tm.lines) = 1
             /\ tm.lines[1].sink = LogFunc(tcfg.arg)
             /\ tm.lines[1].status = tm.lw.StatusCode
             /\ tm.lines[1].path = tm.path
             /\ tm.lines[1].size = tm.lw.Size
             /\ tm.lines[1].elapsed # Absent <=>
                   (tcfg.arg # NilOptions /\ tcfg.arg.WithExecutionTime)
             /\ tm.lines[1].headers # Absent <=>
                   (tcfg.arg # NilOptions /\ tcfg.arg.WithHeaders)

\* C18: the path the logging middleware reports is the request's URL path as it
\* was on entry to the middleware, even when a downstream handler rewrote
\* r.URL.Path before returning.
C18_OriginalPathLogged ==
    TimedDone => \A j \in 1..Len(tm.lines) : tm.lines[j].path = tm.entry

\* what the code does: the logFn and zap versions report the path on entry, the
\* options version the path as the downstream handler left it
C18_ExceptOptions ==
    TimedDone =>
        \A j \in 1..Len(tm.lines) :
            tm.lines[j].path = IF tcfg.variant = "options" THEN tm.path ELSE tm.entry

\* a rewritten path is restored and reported by the logFn version
C18_Restored ==
    /\ TimedDone
    /\ tcfg.variant = "logfn"
    /\ tm.entry = <<"/", "a", "/", "a">>
    /\ tm.path = tm.entry
    /\ tm.lines[1].path = tm.entry
    /\ tm.lw.StatusCode = 200

\* ======================================================= session middleware
\* a nil pointer, a nil interface value, a nil error
Nil == "nil"
\* the sessions the store holds
Sessions == {"session1", "session2"}
\* the ids the extractor can return
SessionIds == {"foobar", "other"}
\* the key of the session in a request context, and a key of another package
SessionContextKey == "sessionContextKey"
OtherContextKey == "http-server"

\* a context is the list of the (key, value) pairs added to it, oldest first
Background == <<>>

\* context.WithValue(ctx, key, value)
WithValue(ctx, key, value) == Append(ctx, [key |-> key, value |-> value])

RECURSIVE ContextValue(_, _)
\* ctx.Value(key): the value added last under key, nil when there is none
ContextValue(ctx, key) ==
    IF ctx = <<>> THEN Nil
    ELSE IF ctx[Len(ctx)].key = key THEN ctx[Len(ctx)].value
    ELSE ContextValue(SubSeq(ctx, 1, Len(ctx) - 1), key)

\* a mutant of FromContext: the value is looked up under another key
FromContextOtherKey(ctx) == ContextValue(ctx, OtherContextKey)

\* func FromContext[Value any](ctx context.Context) *Value
FromContext(ctx) ==
    LET value == ContextValue(ctx, SessionContextKey)
    IN IF value = Nil THEN Nil ELSE value

\* the contexts a request comes in with
IncomingContexts == {Background, WithValue(Background, OtherContextKey, "server")}

NewSessionRequest(ctx) ==
    [pc |-> "idle", in |-> ctx, extracted |-> [id |-> Nil, err |-> Nil],
     fetched |-> [session |-> Nil, err |-> Nil], ctx |-> ctx, sets |-> 0,
     got |-> <<>>, nexts |-> 0, wrote |-> 0]

\* a mutant of OnExtractError and OnFetchError: the middleware answers the
\* request with an error itself and returns
OnErrorAbort(s) == [s EXCEPT !.wrote = @ + 1, !.pc = "done"]

\* next.ServeHTTP(w, req)
CallNext(s) == [s EXCEPT !.nexts = @ + 1, !.pc = "next"]

\* if err != nil { m.logger.Error("unable to extract session id", ...);
\* next.ServeHTTP(w, req); return }
OnExtractError(s) == CallNext(s)

\* if err != nil { m.logger.Error("unable to fetch session", ...);
\* next.ServeHTTP(w, req); return }
OnFetchError(s) == CallNext(s)

\* id, err := m.extractor("foobar")
SessionExtract(id, err) ==
    /\ ss.pc = "idle"
    /\ LET s == [ss EXCEPT !.extracted = [id |-> id, err |-> err]]
       IN ss' = IF err # Nil THEN OnExtractError(s) ELSE [s EXCEPT !.pc = "fetch"]
    /\ UNCHANGED notSession

\* session, err := m.store.Fetch(req.Context(), id)
SessionFetch(session, err) ==
    /\ ss.pc = "fetch"
    /\ LET s == [ss EXCEPT !.fetched = [session |-> session, err |-> err]]
       IN ss' = IF err # Nil THEN OnFetchError(s) ELSE [s EXCEPT !.pc = "set"]
    /\ UNCHANGED notSession

\* if session != nil { req = req.WithContext(context.WithValue(...)) }, then
\* next.ServeHTTP(w, req)
SessionSet ==
    /\ ss.pc = "set"
    /\ ss' = IF ss.fetched.session # Nil
             THEN CallNext([ss EXCEPT
                               !.ctx = WithValue(@, SessionContextKey, ss.fetched.session),
                               !.sets = @ + 1])
             ELSE CallNext(ss)
    /\ UNCHANGED notSession

\* the downstream handler, called with next.ServeHTTP(w, req), calls
\* FromContext(req.Context())
DownstreamFromContext ==
    /\ ss.pc = "next"
    /\ Len(ss.got) < MaxReads
    /\ ss' = [ss EXCEPT !.got = Append(@, FromContext(ss.ctx))]
    /\ UNCHANGED notSession

\* next.ServeHTTP returns and so does the middleware
SessionReturn ==
    /\ ss.pc = "next"
    /\ ss' = [ss EXCEPT !.pc = "done"]
    /\ UNCHANGED notSession

SessionInit == \E ctx \in IncomingContexts : ss = NewSessionRequest(ctx)

NextSession ==
    \/ \E id \in SessionIds, err \in {Nil, "bad id"} : SessionExtract(id, err)
    \/ \E session \in Sessions \cup {Nil}, err \in {Nil, "store down"} :
          SessionFetch(session, err)
    \/ SessionSet
    \/ DownstreamFromContext
    \/ SessionReturn

\* ------------------------------------------------ session middleware claims
\* C19: a handler downstream of the session middleware gets from FromContext the
\* session the store returned iff the extractor returned no error, Fetch
\* returned no error and the fetched session is not nil; in every other case it
\* gets nil; the session slot is written at most once per request.
C19_SessionIffFetched ==
    /\ ss.sets <= 1
    /\ \A j \in 1..Len(ss.got) :
          ss.got[j] = IF /\ ss.extracted.err = Nil
                         /\ ss.fetched.err = Nil
                         /\ ss.fetched.session # Nil
                      THEN ss.fetched.session
                      ELSE Nil

C19_Witness ==
    /\ ss.pc = "done"
    /\ ss.in # Background
    /\ ss.fetched = [session |-> "session2", err |-> Nil]
    /\ ss.got = <<"session2", "session2">>
    /\ ss.sets = 1

\* the other case: a session that comes with an error is not handed on
C19_FetchError ==
    /\ ss.pc = "done"
    /\ ss.fetched = [session |-> "session1", err |-> "store down"]
    /\ ss.got = <<Nil>>
    /\ ss.sets = 0

\* C24: whatever happens in the session middleware (the extraction fails, Fetch
\* fails, the store has no session, a session is found) the next handler is
\* called exactly once per request, and the middleware itself never writes to
\* the response nor ends the request without calling next.
C24_NextExactlyOnce ==
    /\ ss.wrote = 0
    /\ ss.nexts = IF ss.pc \in {"next", "done"} THEN 1 ELSE 0

C24_Witness ==
    /\ ss.pc = "done"
    /\ ss.extracted.err = Nil
    /\ ss.fetched.err # Nil
    /\ ss.nexts = 1

\* the other failure: the extraction fails
C24_ExtractError ==
    /\ ss.pc = "done"
    /\ ss.extracted.err # Nil
    /\ ss.nexts = 1

\* ========================================================= response helpers
\* net/http status codes
StatusOK == 200
StatusBadRequest == 400
StatusUnauthorized == 401
StatusInternalServerError == 500
StatusServiceUnavailable == 503

\* a text is a sequence of characters and formatting verbs
TextElems == {"a", "%s"}
HelperTexts == UNION {[1..k -> TextElems] : k \in 0..MaxTextLen}
HelperArgs == UNION {[1..k -> {"x"}] : k \in 0..MaxArgs}
\* the codes given to WriteText
HelperCodes == {StatusOK, 404}
\* the errors given to WriteError, by their Error() text
HelperErrors == {<<"f", "o", "o", "b", "a", "r">>, <<>>}

RECURSIVE Sprintf(_, _)
\* fmt.Sprintf(text, args...): a verb prints the next argument, a verb without
\* an argument and arguments without a verb print as fmt reports them
Sprintf(text, args) ==
    IF text = <<>>
    THEN IF args = <<>> THEN <<>> ELSE <<"%!(EXTRA)">>
    ELSE IF Head(text) = "%s"
    THEN IF args = <<>> THEN <<"%!s(MISSING)">> \o Sprintf(Tail(text), args)
         ELSE <<Head(args)>> \o Sprintf(Tail(text), Tail(args))
    ELSE <<Head(text)>> \o Sprintf(Tail(text), args)

\* the calls a helper makes on w, in order
CallWriteHeader(code) == [op |-> "WriteHeader", code |-> code, data |-> <<>>]
CallWrite(data) == [op |-> "Write", code |-> 0, data |-> data]

\* a mutant of WriteText: the body is written before the status
WriteTextBodyFirst(code, text, args) ==
    <<CallWrite(Sprintf(text, args)), CallWriteHeader(code)>>

\* func WriteText(w, code, text, args...): w.WriteHeader(code); fmt.Fprintf(w, text, args...)
WriteText(code, text, args) ==
    <<CallWriteHeader(code), CallWrite(Sprintf(text, args))>>

\* func WriteError(w, err): w.WriteHeader(500); io.WriteString(w, err.Error())
WriteError(err) == <<CallWriteHeader(StatusInternalServerError), CallWrite(err)>>

\* func WriteOK(w, text, args...)
WriteOK(text, args) == WriteText(StatusOK, text, args)

\* func WriteBadRequest(w, text, args...)
WriteBadRequest(text, args) == WriteText(StatusBadRequest, text, args)

\* func WriteUnauthorized(w, text, args...)
WriteUnauthorized(text, args) == WriteText(StatusUnauthorized, text, args)

\* func WriteServiceUnavailable(w, text, args...)
WriteServiceUnavailable(text, args) == WriteText(StatusServiceUnavailable, text, args)

Helpers == {"WriteError", "WriteOK", "WriteBadRequest", "WriteUnauthorized",
            "WriteServiceUnavailable", "WriteText"}

\* the calls the helper named in c makes
HelperCalls(c) ==
    CASE c.helper = "WriteError" -> WriteError(c.err)
      [] c.helper = "WriteOK" -> WriteOK(c.text, c.args)
      [] c.helper = "WriteBadRequest" -> WriteBadRequest(c.text, c.args)
      [] c.helper = "WriteUnauthorized" -> WriteUnauthorized(c.text, c.args)
      [] c.helper = "WriteServiceUnavailable" -> WriteServiceUnavailable(c.text, c.args)
      [] OTHER -> WriteText(c.code, c.text, c.args)

\* the response writer of the server: the first WriteHeader sets the status, a
\* Write before any WriteHeader sends 200, Write appends to the body
NewResponse == [status |-> 0, body |-> <<>>, calls |-> <<>>]

ResponseApply(rw, call) ==
    IF call.op = "WriteHeader"
    THEN [rw EXCEPT !.status = IF @ = 0 THEN call.code ELSE @,
                    !.calls = Append(@, call)]
    ELSE [rw EXCEPT !.status = IF @ = 0 THEN StatusOK ELSE @,
                    !.body = @ \o call.data,
                    !.calls = Append(@, call)]

NoHelperCall == [helper |-> "none", code |-> 0, text |-> <<>>, args |-> <<>>, err |-> <<>>]

NewHelperState == [pc |-> "idle", call |-> NoHelperCall, todo |-> <<>>, rw |-> NewResponse]

\* the handler calls one of the helpers on its fresh response writer
HelperEnter(c) ==
    /\ hw.pc = "idle"
    /\ hw' = [hw EXCEPT !.pc = "run", !.call = c, !.todo = HelperCalls(c)]
    /\ UNCHANGED notHelper

\* the helper makes its next call on w
HelperStep ==
    /\ hw.pc = "run"
    /\ hw.todo # <<>>
    /\ hw' = [hw EXCEPT !.rw = ResponseApply(@, Head(hw.todo)), !.todo = Tail(@)]
    /\ UNCHANGED notHelper

\* the helper returns
HelperReturn ==
    /\ hw.pc = "run"
    /\ hw.todo = <<>>
    /\ hw' = [hw EXCEPT !.pc = "done"]
    /\ UNCHANGED notHelper

HelperInit == hw = NewHelperState

NextHelper ==
    \/ \E err \in HelperErrors :
          HelperEnter([NoHelperCall EXCEPT !.helper = "WriteError", !.err = err])
    \/ \E h \in Helpers \ {"WriteError", "WriteText"}, text \in HelperTexts, args \in HelperArgs :
          HelperEnter([NoHelperCall EXCEPT !.helper = h, !.text = text, !.args = args])
    \/ \E code \in HelperCodes, text \in HelperTexts, args \in HelperArgs :
          HelperEnter([NoHelperCall EXCEPT !.helper = "WriteText", !.code = code,
                                           !.text = text, !.args = args])
    \/ HelperStep
    \/ HelperReturn

\* ---------------------------------------------------------- helper claims
\* the positions of the WriteHeader calls among the calls made on w
HeaderCalls == {j \in 1..Len(hw.rw.calls) : hw.rw.calls[j].op = "WriteHeader"}
BodyCalls == {j \in 1..Len(hw.rw.calls) : hw.rw.calls[j].op = "Write"}

HasVerb(text) == \E j \in 1..Len(text) : text[j] = "%s"

\* C20: each response helper sets the status exactly once and before it writes
\* the body: WriteError sets 500 and writes err.Error(); WriteOK,
\* WriteBadRequest, WriteUnauthorized and WriteServiceUnavailable set 200, 400,
\* 401 and 503 and write the given text (formatted with the given arguments);
\* WriteText sets the given code and writes the given text.
C20_StatusOnceThenBody ==
    hw.pc = "done" =>
        LET c == hw.call
            code == CASE c.helper = "WriteError" -> 500
                      [] c.helper = "WriteOK" -> 200
                      [] c.helper = "WriteBadRequest" -> 400
                      [] c.helper = "WriteUnauthorized" -> 401
                      [] c.helper = "WriteServiceUnavailable" -> 503
                      [] OTHER -> c.code
        IN /\ Cardinality(HeaderCalls) = 1
           /\ \A i \in HeaderCalls, j \in BodyCalls : i < j
           /\ hw.rw.calls[1].code = code
           /\ hw.rw.status = code
           /\ hw.rw.body = IF c.helper = "WriteError" THEN c.err ELSE Sprintf(c.text, c.args)
           /\ (c.helper # "WriteError" /\ ~HasVerb(c.text) /\ c.args = <<>>) =>
                 hw.rw.body = c.text

C20_Witness ==
    /\ hw.pc = "done"
    /\ hw.call.helper = "WriteUnauthorized"
    /\ hw.call.text = <<"a", "%s">>
    /\ hw.call.args = <<"x">>
    /\ hw.rw.status = 401
    /\ hw.rw.body = <<"a", "x">>
    /\ Len(hw.rw.calls) = 2

\* WriteError answers 500 with the text of the error
C20_WriteError ==
    /\ hw.pc = "done"
    /\ hw.call.helper = "WriteError"
    /\ hw.rw.status = 500
    /\ hw.rw.body = <<"f", "o", "o", "b", "a", "r">>

\* ===================================== LoggingWriter seen from underneath
\* the buffers handed to Write: n bytes, for n up to MaxChunk
Bytes(n) == [i \in 1..n |-> 97]
Buffers == {Bytes(n) : n \in 0..MaxChunk}

\* a call on a response writer: the method and its arguments
WriterCall(op, args) == [op |-> op, args |-> args]

\* return w.underlying.Header()
ForwardHeader == WriterCall("Header", <<>>)

\* a mutant of ForwardWrite: the underlying writer is handed an empty buffer
ForwardWriteEmpty(b) == WriterCall("Write", <<>>)

\* return w.underlying.Write(b)
ForwardWrite(b) == WriterCall("Write", b)

\* w.underlying.WriteHeader(code)
ForwardWriteHeader(code) == WriterCall("WriteHeader", <<code>>)

\* `return w.underlying.Header()` and `return w.underlying.Write(b)`: what the
\* underlying writer returned is returned
ReturnUnderlying(ret) == ret

NewPass == [lw |-> NewLoggingWriter, made |-> <<>>, got |-> <<>>,
            rets |-> <<>>, urets |-> <<>>]

\* w.Header(); the underlying writer returns its header map
PassHeader ==
    /\ Len(pt.made) < MaxForwards
    /\ LET uret == <<"underlying.Header">>
       IN pt' = [pt EXCEPT !.made = Append(@, WriterCall("Header", <<>>)),
                           !.got = Append(@, ForwardHeader),
                           !.urets = Append(@, uret),
                           !.rets = Append(@, ReturnUnderlying(uret))]
    /\ UNCHANGED notPass

\* w.Write(b); the underlying writer accepts m <= len(b) bytes and returns
\* (m, err)
PassWrite(b, m, err) ==
    /\ Len(pt.made) < MaxForwards
    /\ m <= Len(b)
    /\ err = "nil" => m = Len(b)
    /\ LET uret == <<m, err>>
       IN pt' = [pt EXCEPT !.lw = LoggingWriterWrite(@, Len(b)),
                           !.made = Append(@, WriterCall("Write", b)),
                           !.got = Append(@, ForwardWrite(b)),
                           !.urets = Append(@, uret),
                           !.rets = Append(@, ReturnUnderlying(uret))]
    /\ UNCHANGED notPass

\* w.WriteHeader(code); nothing is returned
PassWriteHeader(code) ==
    /\ Len(pt.made) < MaxForwards
    /\ pt' = [pt EXCEPT !.lw = LoggingWriterWriteHeader(@, code),
                        !.made = Append(@, WriterCall("WriteHeader", <<code>>)),
                        !.got = Append(@, ForwardWriteHeader(code)),
                        !.urets = Append(@, <<>>),
                        !.rets = Append(@, <<>>)]
    /\ UNCHANGED notPass

PassInit == pt = NewPass

NextPass ==
    \/ PassHeader
    \/ \E b \in Buffers, m \in 0..MaxChunk, err \in {"nil", "EPIPE"} : PassWrite(b, m, err)
    \/ \E code \in HeaderCodes : PassWriteHeader(code)

\* C22: LoggingWriter is a pass-through: the underlying writer gets every
\* Header, Write and WriteHeader call made on the LoggingWriter, once each, with
\* the same argument and in the order the calls were made, and Header and Write
\* return what the underlying writer returned; the recording changes none of it.
C22_PassThrough ==
    /\ pt.got = pt.made
    /\ pt.rets = pt.urets

C22_Witness ==
    /\ Len(pt.made) = 3
    /\ pt.made[1].op = "WriteHeader"
    /\ pt.made[2] = WriterCall("Write", Bytes(2))
    /\ pt.rets[2] = <<1, "EPIPE">>
    /\ pt.made[3].op = "Header"
    /\ pt.lw.Size = 2

\* ========================================= the logger behind a middleware
\* the chain Middleware1 -> Logging -> FinalHandler of the documentation of
\* NewLoggingMiddleware; the clock readings are in ticks
NewPlaced ==
    [pc |-> "idle", now |-> 0, arrive |-> 0, before |-> 0, within |-> 0, inner |-> 0,
     after |-> 0, start |-> 0, elapsed |-> 0, lw |-> NewLoggingWriter, logged |-> <<>>]

\* time passes: in Middleware1 before or after its call of next, or from the
\* logging middleware onward (within), there possibly in the final handler
\* (inner)
PlacedTick ==
    /\ pl.now < MaxClock
    /\ pl.pc \notin {"idle", "done"}
    /\ pl' = [pl EXCEPT !.now = @ + 1,
                        !.before = IF pl.pc = "m1" THEN @ + 1 ELSE @,
                        !.after = IF pl.pc = "m1after" THEN @ + 1 ELSE @,
                        !.within = IF pl.pc \notin {"m1", "m1after"} THEN @ + 1 ELSE @,
                        !.inner = IF pl.pc = "final" THEN @ + 1 ELSE @]
    /\ UNCHANGED notPlace

\* the request arrives at Middleware1
PlacedArrive ==
    /\ pl.pc = "idle"
    /\ pl' = [pl EXCEPT !.pc = "m1", !.arrive = pl.now]
    /\ UNCHANGED notPlace

\* Middleware1 calls next: the logging handler is entered, lw := &loggingWriter{}
PlacedEnter ==
    /\ pl.pc = "m1"
    /\ pl' = [pl EXCEPT !.pc = "stamp"]
    /\ UNCHANGED notPlace

\* a mutant of Stamp: the time is counted from the arrival of the request
StampArrival(p) == p.arrive

\* time.Now()
Stamp(p) == p.now

\* start := time.Now()
PlacedStamp ==
    /\ pl.pc = "stamp"
    /\ pl' = [pl EXCEPT !.pc = "final", !.start = Stamp(pl)]
    /\ UNCHANGED notPlace

\* next.ServeHTTP(lw, r): the final handler answers and returns
PlacedFinal(code, n) ==
    /\ pl.pc = "final"
    /\ pl' = [pl EXCEPT !.pc = "since",
                        !.lw = LoggingWriterWrite(LoggingWriterWriteHeader(@, code), n)]
    /\ UNCHANGED notPlace

\* elapsed := time.Since(start)
PlacedSince ==
    /\ pl.pc = "since"
    /\ pl' = [pl EXCEPT !.pc = "log", !.elapsed = Since(pl.start, pl.now)]
    /\ UNCHANGED notPlace

\* the switch: with the default options a status below 400 is logged with
\* zap.Duration("elapsed", elapsed), and so is a 4xx status; the logging handler
\* returns to Middleware1
PlacedLog ==
    /\ pl.pc = "log"
    /\ pl' = [pl EXCEPT !.pc = "m1after",
                        !.logged = IF pl.lw.StatusCode < 500 THEN <<pl.elapsed>> ELSE <<>>]
    /\ UNCHANGED notPlace

\* Middleware1 returns
PlacedReturn ==
    /\ pl.pc = "m1after"
    /\ pl' = [pl EXCEPT !.pc = "done"]
    /\ UNCHANGED notPlace

PlaceInit == pl = NewPlaced

NextPlace ==
    \/ PlacedTick
    \/ PlacedArrive
    \/ PlacedEnter
    \/ PlacedStamp
    \/ \E code \in {200, 404}, n \in 0..MaxBody : PlacedFinal(code, n)
    \/ PlacedSince
    \/ PlacedLog
    \/ PlacedReturn

\* C23: in the chain Middleware1 -> Logging -> FinalHandler the elapsed value
\* that is logged is the time from the logging middleware onward: the time spent
\* in Middleware1 before it calls next and after next returns is not in it.
C23_ElapsedExcludesOuter ==
    pl.logged # <<>> =>
        /\ pl.logged[1] >= pl.inner
        /\ pl.logged[1] <= pl.within
        /\ pl.pc = "done" => pl.logged[1] <= (pl.now - pl.arrive) - pl.before - pl.after

C23_Witness ==
    /\ pl.pc = "done"
    /\ pl.before = 1
    /\ pl.after = 1
    /\ pl.inner = 1
    /\ pl.logged = <<1>>

\* ========================================================== specifications
\* the parts of the program a specification does not exercise stay as built
RouterUnused ==
    /\ routers = [r \in RouterIds |-> NoRouter]
    /\ heap = [a \in ArrIds |-> <<>>]
    /\ nextH = 0
    /\ built = NotBuilt
    /\ inv = [k \in InvIds |-> Idle]
    /\ hstore = [x \in HCtxs |-> {}]

MWUnused ==
    /\ kind = "Chain"
    /\ stack = <<>>
    /\ wrapped = NotWrapped
    /\ req = NoReq

LogUnused ==
    /\ logCfg = [variant |-> "plain", given |-> NoOptions]
    /\ lreq = NoLReq

WriterUnused == wr = NewWriter(FALSE)

ShiftUnused == sp = NewPath(Slash)

SessionUnused == ss = NewSessionRequest(Background)

HelperUnused == hw = NewHelperState

TimedUnused ==
    /\ tcfg = [variant |-> "plain", arg |-> NilOptions]
    /\ tm = NewTimed

PassUnused == pt = NewPass

PlaceUnused == pl = NewPlaced

Init == RouterInit /\ MWUnused /\ LogUnused /\ WriterUnused /\ ShiftUnused /\ TimedUnused
    /\ SessionUnused /\ HelperUnused /\ PassUnused /\ PlaceUnused

Next == NextRouter

\* a router serving requests
Spec == Init /\ [][Next]_vars

\* a complete router serving concurrent requests
SpecConc == Init /\ [][NextConc]_vars

\* concurrent requests with their handler contexts
SpecCtx == Init /\ [][NextCtx]_vars

\* a tree of routers being built
SpecDiverge == Init /\ [][NextDiverge]_vars

\* a Chain or a MiddlewareStack serving requests
InitMW == MWInit /\ RouterUnused /\ LogUnused /\ WriterUnused /\ ShiftUnused /\ TimedUnused
    /\ SessionUnused /\ HelperUnused /\ PassUnused /\ PlaceUnused

SpecMW == InitMW /\ [][NextMW]_vars

\* a logging middleware serving requests
InitLog == LogInit /\ RouterUnused /\ MWUnused /\ WriterUnused /\ ShiftUnused /\ TimedUnused
    /\ SessionUnused /\ HelperUnused /\ PassUnused /\ PlaceUnused

SpecLog == InitLog /\ [][NextLog]_vars

\* one LoggingWriter being written to
InitWriter == WriterInit /\ RouterUnused /\ MWUnused /\ LogUnused /\ ShiftUnused /\ TimedUnused
    /\ SessionUnused /\ HelperUnused /\ PassUnused /\ PlaceUnused

SpecWriter == InitWriter /\ [][NextWriter]_vars

\* one request path being routed with ShiftPath
InitShift == ShiftInit /\ RouterUnused /\ MWUnused /\ LogUnused /\ WriterUnused /\ TimedUnused
    /\ SessionUnused /\ HelperUnused /\ PassUnused /\ PlaceUnused

SpecShift == InitShift /\ [][NextShift]_vars

\* one request through a logging middleware that measures the time
InitTimed ==
    TimedInit /\ RouterUnused /\ MWUnused /\ LogUnused /\ WriterUnused /\ ShiftUnused
    /\ SessionUnused /\ HelperUnused /\ PassUnused /\ PlaceUnused

SpecTimed == InitTimed /\ [][NextTimed]_vars

\* one request through the session middleware
InitSession ==
    SessionInit /\ RouterUnused /\ MWUnused /\ LogUnused /\ WriterUnused /\ ShiftUnused
    /\ TimedUnused /\ HelperUnused /\ PassUnused /\ PlaceUnused

SpecSession == InitSession /\ [][NextSession]_vars

\* one call of a response helper
InitHelper ==
    HelperInit /\ RouterUnused /\ MWUnused /\ LogUnused /\ WriterUnused /\ ShiftUnused
    /\ TimedUnused /\ SessionUnused /\ PassUnused /\ PlaceUnused

SpecHelper == InitHelper /\ [][NextHelper]_vars

\* one LoggingWriter and the writer underneath it
InitPass ==
    PassInit /\ RouterUnused /\ MWUnused /\ LogUnused /\ WriterUnused /\ ShiftUnused
    /\ TimedUnused /\ SessionUnused /\ HelperUnused /\ PlaceUnused

SpecPass == InitPass /\ [][NextPass]_vars

\* one request through Middleware1, the logging middleware and the final handler
InitPlace ==
    PlaceInit /\ RouterUnused /\ MWUnused /\ LogUnused /\ WriterUnused /\ ShiftUnused
    /\ TimedUnused /\ SessionUnused /\ HelperUnused /\ PassUnused

SpecPlace == InitPlace /\ [][NextPlace]_vars

====
